---- MODULE Spec2Model ----
(***************************************************************************)
(* A model of BundleContext (media/libeffects/lvm/wrapper/Aidl): the       *)
(* session object that sits between the effect framework and the LVM       *)
(* engine.  The session state is the record ctx, the engine is the record  *)
(* eng.  Every handler of BundleContext.cpp is an operator from            *)
(* (ctx, eng, inputs) to the state it leaves and the value it returns; the *)
(* sequential specifications apply a handler as one step, the concurrent   *)
(* specification runs the same handlers statement by statement on two      *)
(* threads that share the session and its mutex.                           *)
(***************************************************************************)
EXTENDS Integers, Sequences, FiniteSets, TLC

VARIABLES ctx, eng, last, scen, mMutex, pc, loc, inEngine

vars == <<ctx, eng, last, scen, mMutex, pc, loc, inEngine>>

(***************************************************************************)
(* Constants of BundleTypes.h (the header is not part of the sources kept  *)
(* with this model; the values are those the .cpp file relies on).         *)
(***************************************************************************)
MAX_NUM_BANDS == 5
MAX_NUM_PRESETS == 10
PRESET_CUSTOM == -1

BASS_BOOST == 0
VIRTUALIZER == 1
EQUALIZER == 2
VOLUME == 3

BundleEffectType == {BASS_BOOST, VIRTUALIZER, EQUALIZER, VOLUME}

kSoftPresets ==
    << <<3, 0, 0, 0, 3>>,
       <<5, 3, -2, 4, 4>>,
       <<6, 0, 2, 4, 1>>,
       <<0, 0, 0, 0, 0>>,
       <<3, 0, 0, 2, -1>>,
       <<4, 1, 9, 3, 0>>,
       <<5, 3, 0, 1, 3>>,
       <<4, 2, -2, 2, 5>>,
       <<-1, 2, 5, 1, -2>>,
       <<5, 3, -1, 3, 5>> >>

\* kBandEnergyCoefficient squared, times 10^4 (7.56, 9.69, 9.59, 7.37, 2.88)
kBandEnergyCoefficientSq == <<571536, 938961, 919681, 543169, 82944>>

\* kBandEnergyCrossCoefficient (126.0, 115.0, 125.0, 104.0)
kBandEnergyCrossCoefficient == <<126, 115, 125, 104>>

Bands == 0 .. (MAX_NUM_BANDS - 1)

NULL == 0
HANDLE == 1

(***************************************************************************)
(* Bounds of the model.                                                    *)
(***************************************************************************)
\* init() is called at most this many times in one behaviour
MaxInstances == 2
\* init() is called at most this many times in one behaviour of two
\* threads
MaxConcInstances == 1
\* enable() is not called once the enabled-effect count has reached this
MaxEnabled == 3
\* lvmProcess is not called once the enabled-effect count has fallen to
\* minus this (two threads)
MaxDeficit == 1
\* the highest saved master level limitLevel is applied to
MaxSavedLevel == 3

\* sample rates a session is configured with (0: the rate was never set)
SampleRates == {0, 8000, 44100}
\* sample counts of one lvmProcess call
SampleCounts == {2000, 3000}
\* the samples argument of lvmProcess when two threads run
ConcSampleCounts == {3000}
\* levels (in the unit of mBandGaindB) a band-level update supplies
UpdateLevels == {-2, 4}
\* the levels of the two entries of an update of two entries
UpdateLevelPairs == {<<-2, 4>>}
\* linear volumes passed to setVolumeStereo
VolumeInputs == {4096, 1048576}
\* the index of the engine call of a handler that fails (0: none fails)
FailPoints == 0 .. 5

Threads == {"control", "audio"}

\* 1 << n for the shifts the code makes
RECURSIVE Pow2(_)
Pow2(n) == IF n = 0 THEN 1 ELSE 2 * Pow2(n - 1)

RECURSIVE SumSeq(_)
SumSeq(q) == IF q = <<>> THEN 0 ELSE Head(q) + SumSeq(Tail(q))

Range(q) == {q[k] : k \in 1 .. Len(q)}

(***************************************************************************)
(* GainMath.  A 32-bit unsigned value v is the pair <<hi, lo>> of its two  *)
(* 16-bit halves, v = hi * 65536 + lo.                                     *)
(***************************************************************************)
\* index of the highest set bit of x, 0 < x < 65536
RECURSIVE Msb16(_)
Msb16(x) == IF x <= 1 THEN 0 ELSE 1 + Msb16(x \div 2)

\* the top 8 bits of v counted from its highest set bit (v # 0):
\* (v << Shift) >> 24 after the leading-bit scan
TopByte(hi, lo) ==
    IF hi > 0
    THEN LET k == Msb16(hi) + 9
         IN IF k <= 16 THEN hi * Pow2(16 - k) + (lo \div Pow2(k))
            ELSE hi \div Pow2(k - 16)
    ELSE LET p == Msb16(lo)
         IN IF p >= 7 THEN lo \div Pow2(p - 7) ELSE lo * Pow2(7 - p)

\* the number of iterations of the leading-bit scan
LeadingShift(hi, lo) ==
    IF hi > 0 THEN 15 - Msb16(hi)
    ELSE IF lo > 0 THEN 31 - Msb16(lo)
    ELSE 32

\* a faulty variant of LVC_ToDB_s32Tos16 that adds the squared term
LVC_ToDB_s32Tos16AddsSquare(Lin_fix) ==
    LET hi == Lin_fix[1]
        lo == Lin_fix[2]
        Shift == LeadingShift(hi, lo)
        SmallRemainder == IF hi = 0 /\ lo = 0 THEN 0 ELSE TopByte(hi, lo) - 128
        db1 == (-96) * Shift
        db2 == db1 + SmallRemainder
        db3 == db2 + ((SmallRemainder * SmallRemainder) \div 512)
    IN db3 - 5

LVC_ToDB_s32Tos16(Lin_fix) ==
    LET hi == Lin_fix[1]
        lo == Lin_fix[2]
        Shift == LeadingShift(hi, lo)
        SmallRemainder == IF hi = 0 /\ lo = 0 THEN 0 ELSE TopByte(hi, lo) - 128
        db1 == (-96) * Shift
        db2 == db1 + SmallRemainder
        db3 == db2 - ((SmallRemainder * SmallRemainder) \div 512)
    IN db3 - 5

\* vol << 7 as a 32-bit unsigned value, vol < 2^31
ShiftLeft7(vol) ==
    LET b == vol % 33554432
    IN <<b \div 512, (b % 512) * 128>>

VolToDb(vol) ==
    LET dB0 == LVC_ToDB_s32Tos16(ShiftLeft7(vol))
        dB1 == (dB0 + 8) \div 16
    IN IF dB1 < -96 THEN -96 ELSE dB1

(***************************************************************************)
(* LevelEstimator: the arithmetic of limitLevel, in exact integers, for    *)
(* band gains from -24 to 24.  The code computes in float; for the gains   *)
(* from -15 to 15 its result equals the exact one on every gain vector.    *)
(* Energies are integers in units of 1/450000, the correction and the      *)
(* levels compared with the root are integers in units of 1/4500.          *)
(***************************************************************************)
\* energyContribution + energyCross, times 450000
EnergyScaled(gain) ==
    LET band(i) == IF gain[i] > 0
                   THEN gain[i] * 3 * kBandEnergyCoefficientSq[i + 1] ELSE 0
        cross(i) == IF gain[i] > 0 /\ gain[i + 1] > 0
                    THEN gain[i] * gain[i + 1] * kBandEnergyCrossCoefficient[i + 1] * 2000
                    ELSE 0
    IN SumSeq([k \in 1 .. MAX_NUM_BANDS |-> band(k - 1)])
       + SumSeq([k \in 1 .. MAX_NUM_BANDS - 1 |-> cross(k - 1)])

\* bandFactorSum before the subtraction of 1.0, times 225
BandFactorSumScaled(gain) ==
    LET prod(i) == IF gain[i] > 0 /\ gain[i + 1] > 0 THEN gain[i] * gain[i + 1] ELSE 0
    IN SumSeq([k \in 1 .. MAX_NUM_BANDS - 1 |-> prod(k - 1)])

\* crossCorrection, times 4500: 0.7 * (s / 225 - 1) = 14 * (s - 225) / 4500
CrossCorrectionScaled(gain) ==
    LET s == BandFactorSumScaled(gain)
    IN IF s > 225 THEN 14 * (s - 225) ELSE 0

\* the product a * b of 0 <= a, b < 2^30 as three digits of base 2^15,
\* the highest first (the product itself does not fit 32 bits)
WideProduct(a, b) ==
    LET B == Pow2(15)
        a1 == a \div B
        a0 == a % B
        b1 == b \div B
        b0 == b % B
        lo == a0 * b0
        mid == a1 * b0 + a0 * b1 + (lo \div B)
        hi == a1 * b1 + (mid \div B)
    IN <<hi, mid % B, lo % B>>

\* x <= y for two such products
WideLeq(x, y) ==
    \/ x[1] < y[1]
    \/ x[1] = y[1] /\ x[2] < y[2]
    \/ x[1] = y[1] /\ x[2] = y[2] /\ x[3] <= y[3]

\* is sqrt(energy) - crossCorrection + round >= n, with round and the
\* correction c in units of 1/4500 and e45 the wide product 45 * N of the
\* energy N / 450000: sqrt(N / 450000) >= y / 4500 is 45 * N >= y * y
LevelReaches(e45, c, round, n) ==
    LET y == 4500 * n - round + c
    IN y <= 0 \/ WideLeq(WideProduct(y, y), e45)

\* the largest n >= from with sqrt(energy) - crossCorrection + round >= n,
\* that is (int)(sqrt(energy) - crossCorrection + round) for a sum that is
\* not negative
RECURSIVE LevelFloor(_, _, _, _)
LevelFloor(e45, c, round, from) ==
    IF LevelReaches(e45, c, round, from + 1)
    THEN LevelFloor(e45, c, round, from + 1) ELSE from

\* a faulty variant of MaxLevelRound that rounds with + 1.0
MaxLevelRoundUp(gain, eqEnabled) ==
    IF ~eqEnabled THEN 0
    ELSE LevelFloor(WideProduct(45, EnergyScaled(gain)), CrossCorrectionScaled(gain),
                    4500, 0)

\* (int)(sqrt(energy) - crossCorrection + 0.99); 0.99 is 4455 / 4500
MaxLevelRound(gain, eqEnabled) ==
    IF ~eqEnabled THEN 0
    ELSE LevelFloor(WideProduct(45, EnergyScaled(gain)), CrossCorrectionScaled(gain),
                    4455, 0)

\* params.VC_EffectLevel of limitLevel
EffectLevel(gain, eqEnabled, mLevelSaved) ==
    LET maxLevelRound == MaxLevelRound(gain, eqEnabled)
        gainCorrection == IF maxLevelRound + mLevelSaved > 0
                          THEN maxLevelRound + mLevelSaved ELSE 0
        level == mLevelSaved - gainCorrection
    IN IF level < -96 THEN -96 ELSE level


(***************************************************************************)
(* The LVM engine, as far as the session sees it: how many instances were  *)
(* created and destroyed, and the control parameters of the instance the   *)
(* session holds.  A call on a null handle fails (LVM_NULLADDRESS), and a  *)
(* failed call changes nothing in the engine.                              *)
(***************************************************************************)
PresetGains(p) == [i \in Bands |-> kSoftPresets[p + 1][i + 1]]

\* the control parameters initControlParameter fills in, as far as the
\* session reads or writes them later
initControlParameter ==
    [EQNB_OperatingMode |-> "LVM_EQNB_OFF",
     Gain |-> PresetGains(0),
     VC_EffectLevel |-> 0,
     VC_Balance |-> 0]

\* does the engine call number idx of a handler succeed, when call number f
\* of that handler is the one that fails
CallOk(c, f, idx) == c.mInstance # NULL /\ f # idx

LVM_SetControlParameters(e, params, ok) ==
    IF ok THEN [e EXCEPT !.params = params] ELSE e

\* a value stored into an LVM_INT16
Int16(x) == ((x + 32768) % 65536) - 32768

\* params.pEQNB_BandDefinition[i].Gain = tempLevel[i] for every band.  The
\* parameters LVM_GetControlParameters returns point to the band
\* definitions of the instance itself, so the assignment changes the gains
\* the engine holds at once, before LVM_SetControlParameters is called and
\* whether or not that call succeeds.  The gain of a band whose entry of
\* tempLevel was never written is as little determined as that entry: the
\* gains are a function on the bands whose gain is determined.
WriteBandDefinitions(e, tempLevel) ==
    [e EXCEPT !.params.Gain = [i \in DOMAIN tempLevel |-> Int16(tempLevel[i])]]

LVM_GetInstanceHandle(e, ok) ==
    IF ok THEN [e EXCEPT !.created = @ + 1] ELSE e

LVM_DelInstanceHandle(e) == [e EXCEPT !.destroyed = @ + 1]

\* what a handler hands back: the session, the engine, the value returned
\* and the engine calls it made, in order
Done(c, e, ret, calls) == [ctx |-> c, eng |-> e, ret |-> ret, calls |-> calls]

(***************************************************************************)
(* init and deInit                                                         *)
(***************************************************************************)
\* init() takes mMutex for its whole body; on each failure it jumps to
\* deinit: and calls deInit(), which takes mMutex again on the same thread.
\* std::mutex is not recursive: the thread blocks on itself holding the
\* mutex, and init() never returns ("HANG").
init(c, e, f) ==
    LET c1 == [c EXCEPT !.mBandGaindB = PresetGains(0)]
        ok1 == f # 1
        e1 == LVM_GetInstanceHandle(e, ok1)
        c2 == [c1 EXCEPT !.mInstance = HANDLE]
        ok2 == f # 2
        e2 == LVM_SetControlParameters(e1, initControlParameter, ok2)
        ok3 == f # 3
    IN IF ~ok1 THEN Done(c1, e1, "HANG", <<"LVM_GetInstanceHandle">>)
       ELSE IF ~ok2
       THEN Done(c2, e2, "HANG", <<"LVM_GetInstanceHandle", "LVM_SetControlParameters">>)
       ELSE IF ~ok3
       THEN Done(c2, e2, "HANG", <<"LVM_GetInstanceHandle", "LVM_SetControlParameters",
                                   "LVM_SetHeadroomParams">>)
       ELSE Done(c2, e2, "SUCCESS", <<"LVM_GetInstanceHandle", "LVM_SetControlParameters",
                                      "LVM_SetHeadroomParams">>)

deInit(c, e) ==
    IF c.mInstance # NULL
    THEN Done([c EXCEPT !.mInstance = NULL], LVM_DelInstanceHandle(e), "void",
              <<"LVM_DelInstanceHandle">>)
    ELSE Done(c, e, "void", <<>>)

(***************************************************************************)
(* limitLevel, enable, disable                                             *)
(***************************************************************************)
\* a faulty variant of limitLevel that leaves mFirstVolume set
limitLevelKeepsFirstVolume(c, e, f, n, calls) ==
    LET okGet == CallOk(c, f, n + 1)
        params == e.params
        eqEnabled == params.EQNB_OperatingMode = "LVM_EQNB_ON"
        newParams == [params EXCEPT !.VC_EffectLevel =
                          EffectLevel(c.mBandGaindB, eqEnabled, c.mLevelSaved)]
        okSet == CallOk(c, f, n + 2)
        e1 == LVM_SetControlParameters(e, newParams, okSet)
        okVol == CallOk(c, f, n + 3)
        callsGet == Append(calls, "LVM_GetControlParameters")
        callsSet == Append(callsGet, "LVM_SetControlParameters")
        callsVol == Append(callsSet, "LVM_SetVolumeNoSmoothing")
    IN IF ~okGet THEN Done(c, e, "ERROR_EFFECT_LIB_ERROR", callsGet)
       ELSE IF ~okSet THEN Done(c, e1, "ERROR_EFFECT_LIB_ERROR", callsSet)
       ELSE IF c.mFirstVolume
       THEN IF ~okVol THEN Done(c, e1, "ERROR_EFFECT_LIB_ERROR", callsVol)
            ELSE Done(c, e1, "SUCCESS", callsVol)
       ELSE Done(c, e1, "SUCCESS", callsSet)

\* n engine calls were made by the caller before limitLevel starts
limitLevel(c, e, f, n, calls) ==
    LET okGet == CallOk(c, f, n + 1)
        params == e.params
        eqEnabled == params.EQNB_OperatingMode = "LVM_EQNB_ON"
        newParams == [params EXCEPT !.VC_EffectLevel =
                          EffectLevel(c.mBandGaindB, eqEnabled, c.mLevelSaved)]
        okSet == CallOk(c, f, n + 2)
        e1 == LVM_SetControlParameters(e, newParams, okSet)
        okVol == CallOk(c, f, n + 3)
        callsGet == Append(calls, "LVM_GetControlParameters")
        callsSet == Append(callsGet, "LVM_SetControlParameters")
        callsVol == Append(callsSet, "LVM_SetVolumeNoSmoothing")
    IN IF ~okGet THEN Done(c, e, "ERROR_EFFECT_LIB_ERROR", callsGet)
       ELSE IF ~okSet THEN Done(c, e1, "ERROR_EFFECT_LIB_ERROR", callsSet)
       ELSE IF c.mFirstVolume
       THEN IF ~okVol THEN Done(c, e1, "ERROR_EFFECT_LIB_ERROR", callsVol)
            ELSE Done([c EXCEPT !.mFirstVolume = FALSE], e1, "SUCCESS", callsVol)
       ELSE Done(c, e1, "SUCCESS", callsSet)

\* the get / modify / set of enableOperatingMode and disableOperatingMode
SetOperatingMode(c, e, f, mode) ==
    LET okGet == CallOk(c, f, 1)
        params == e.params
        newParams == IF c.mType = EQUALIZER
                     THEN [params EXCEPT !.EQNB_OperatingMode = mode] ELSE params
        okSet == CallOk(c, f, 2)
        e1 == LVM_SetControlParameters(e, newParams, okSet)
    IN IF ~okGet THEN Done(c, e, "ERROR_EFFECT_LIB_ERROR", <<"LVM_GetControlParameters">>)
       ELSE IF ~okSet
       THEN Done(c, e1, "ERROR_EFFECT_LIB_ERROR",
                 <<"LVM_GetControlParameters", "LVM_SetControlParameters">>)
       ELSE Done(c, e1, "SUCCESS", <<"LVM_GetControlParameters", "LVM_SetControlParameters">>)

enableOperatingMode(c, e, f) ==
    LET r == SetOperatingMode(c, e, f, "LVM_EQNB_ON")
    IN IF r.ret # "SUCCESS" THEN r ELSE limitLevel(r.ctx, r.eng, f, 2, r.calls)

disableOperatingMode(c, e, f) ==
    LET r == SetOperatingMode(c, e, f, "LVM_EQNB_OFF")
    IN IF r.ret # "SUCCESS" THEN r
       ELSE limitLevel([r.ctx EXCEPT !.mEnabled = FALSE], r.eng, f, 2, r.calls)

\* (mSamplesPerSecond * 0.1) stored into an int
DrainBudget(mSamplesPerSecond) == mSamplesPerSecond \div 10

\* the bookkeeping of enable() before mEnabled is set (the switch on mType)
EnableBookkeeping(c) ==
    IF c.mType = EQUALIZER
    THEN [c EXCEPT !.mNumberEffectsEnabled =
                       IF c.mSamplesToExitCountEq <= 0 THEN @ + 1 ELSE @,
                   !.mSamplesToExitCountEq = DrainBudget(c.mSamplesPerSecond),
                   !.mEffectInDrain = @ \ {EQUALIZER}]
    ELSE c

\* the value enable() and disable() return when the session is already in
\* the state asked for
AlreadyInState == "ERROR_ILLEGAL_PARAMETER"

enable(c, e, f) ==
    IF c.mEnabled THEN Done(c, e, AlreadyInState, <<>>)
    ELSE enableOperatingMode([EnableBookkeeping(c) EXCEPT !.mEnabled = TRUE], e, f)

\* the bookkeeping of disable() before mEnabled is cleared
DisableBookkeeping(c) ==
    IF c.mType = EQUALIZER
    THEN [c EXCEPT !.mEffectInDrain = @ \cup {EQUALIZER}]
    ELSE c

disable(c, e, f) ==
    IF ~c.mEnabled THEN Done(c, e, AlreadyInState, <<>>)
    ELSE disableOperatingMode([DisableBookkeeping(c) EXCEPT !.mEnabled = FALSE], e, f)


(***************************************************************************)
(* lvmProcess                                                              *)
(***************************************************************************)
\* what lvmProcess hands back: IEffect::Status {status, fmqConsumed,
\* fmqProduced}, what the output buffer holds ("IN": a copy of the input,
\* "LVM": what LVM_Process wrote, "NONE": not written), and whether the
\* call found data available
Processed(c, e, status, n, calls, out, avail) ==
    [ctx |-> c, eng |-> e, ret |-> status, consumed |-> n, produced |-> n,
     calls |-> calls, out |-> out, avail |-> avail]

\* a faulty variant of ForcedDrain that does not mask the draining effects
\* with the effects processed
ForcedDrainIgnoresCalled(c) ==
    IF c.mType \in c.mEffectProcessCalled
    THEN LET undrainedEffects == c.mEffectInDrain
         IN IF EQUALIZER \in undrainedEffects
            THEN [c EXCEPT !.mSamplesToExitCountEq = 0,
                           !.mNumberEffectsEnabled = @ - 1,
                           !.mEffectInDrain = @ \ {EQUALIZER}]
            ELSE c
    ELSE c

\* the consistency self-repair at the head of lvmProcess
ForcedDrain(c) ==
    IF c.mType \in c.mEffectProcessCalled
    THEN LET undrainedEffects == c.mEffectInDrain \ c.mEffectProcessCalled
         IN IF EQUALIZER \in undrainedEffects
            THEN [c EXCEPT !.mSamplesToExitCountEq = 0,
                           !.mNumberEffectsEnabled = @ - 1,
                           !.mEffectInDrain = @ \ {EQUALIZER}]
            ELSE c
    ELSE c

\* mSamplesToExitCountEq after the subtraction of a disabled EQUALIZER
CountAfter(c, samples) ==
    IF c.mSamplesToExitCountEq > 0
    THEN c.mSamplesToExitCountEq - samples ELSE c.mSamplesToExitCountEq

\* isDataAvailable after the if (!mEnabled) block
IsDataAvailable(c, samples) ==
    ~(~c.mEnabled /\ c.mType = EQUALIZER /\ CountAfter(c, samples) <= 0)

\* a faulty variant of DrainStep that ends the drain without clearing the flag
DrainStepKeepsFlag(c, samples) ==
    IF ~c.mEnabled /\ c.mType = EQUALIZER
    THEN LET c1 == [c EXCEPT !.mSamplesToExitCountEq = CountAfter(c, samples)]
         IN IF c1.mSamplesToExitCountEq <= 0 /\ EQUALIZER \in c1.mEffectInDrain
            THEN [c1 EXCEPT !.mNumberEffectsEnabled = @ - 1]
            ELSE c1
    ELSE c

\* the if (!mEnabled) block: the drain accounting of a disabled session
DrainStep(c, samples) ==
    IF ~c.mEnabled /\ c.mType = EQUALIZER
    THEN LET c1 == [c EXCEPT !.mSamplesToExitCountEq = CountAfter(c, samples)]
         IN IF c1.mSamplesToExitCountEq <= 0 /\ EQUALIZER \in c1.mEffectInDrain
            THEN [c1 EXCEPT !.mNumberEffectsEnabled = @ - 1,
                            !.mEffectInDrain = @ \ {EQUALIZER}]
            ELSE c1
    ELSE c

\* does the call reach LVM_Process (TRUE) or copy the input (FALSE)
EndOfRound(c) == c.mNumberEffectsCalled >= c.mNumberEffectsEnabled

\* a faulty variant of ArgumentStatus that does not test the output pointer
ArgumentStatusNoOutCheck(c, in, out) ==
    IF in = NULL THEN "EX_NULL_POINTER"
    ELSE IF c.inputFrameCount # c.outputFrameCount THEN "EX_ILLEGAL_STATE"
    ELSE IF c.frameSize = 0 THEN "EX_ILLEGAL_STATE"
    ELSE "STATUS_OK"

\* the checks of lvmProcess before it touches the session: the status it
\* returns at once, or STATUS_OK when it goes on
ArgumentStatus(c, in, out) ==
    IF in = NULL THEN "EX_NULL_POINTER"
    ELSE IF out = NULL THEN "EX_NULL_POINTER"
    ELSE IF c.inputFrameCount # c.outputFrameCount THEN "EX_ILLEGAL_STATE"
    ELSE IF c.frameSize = 0 THEN "EX_ILLEGAL_STATE"
    ELSE "STATUS_OK"

lvmProcess(c, e, in, out, samples, f) ==
    IF ArgumentStatus(c, in, out) # "STATUS_OK"
    THEN Processed(c, e, ArgumentStatus(c, in, out), 0, <<>>, "NONE", TRUE)
    ELSE LET c1 == ForcedDrain(c)
             c2 == [c1 EXCEPT !.mEffectProcessCalled = @ \cup {c.mType}]
             isDataAvailable == IsDataAvailable(c2, samples)
             c3 == DrainStep(c2, samples)
             c4 == IF isDataAvailable
                   THEN [c3 EXCEPT !.mNumberEffectsCalled = @ + 1] ELSE c3
         IN IF EndOfRound(c4)
            THEN LET c5 == [c4 EXCEPT !.mEffectProcessCalled = {},
                                      !.mNumberEffectsCalled = 0]
                 IN IF CallOk(c5, f, 1)
                    THEN Processed(c5, e, "STATUS_OK", samples, <<"LVM_Process">>,
                                   "LVM", isDataAvailable)
                    ELSE Processed(c5, e, "EX_UNSUPPORTED_OPERATION", 0,
                                   <<"LVM_Process">>, "NONE", isDataAvailable)
            ELSE Processed(c4, e, "STATUS_OK", samples, <<>>, "IN", isDataAvailable)

(***************************************************************************)
(* ParameterStore: setVolumeStereo, setEqualizerPreset,                    *)
(* setEqualizerBandLevels, getEqualizerBandLevels                          *)
(***************************************************************************)
setVolumeStereo(c, e, volume, f) ==
    LET leftdB == VolToDb(volume.left)
        rightdB == VolToDb(volume.right)
        pandB == rightdB - leftdB
        okGet == CallOk(c, f, 1)
        newParams == [e.params EXCEPT !.VC_Balance = pandB]
        okSet == CallOk(c, f, 2)
        e1 == LVM_SetControlParameters(e, newParams, okSet)
    IN IF ~okGet THEN Done(c, e, "ERROR_EFFECT_LIB_ERROR", <<"LVM_GetControlParameters">>)
       ELSE IF ~okSet
       THEN Done(c, e1, "ERROR_EFFECT_LIB_ERROR",
                 <<"LVM_GetControlParameters", "LVM_SetControlParameters">>)
       ELSE Done([c EXCEPT !.mVolumeStereo = volume], e1, "SUCCESS",
                 <<"LVM_GetControlParameters", "LVM_SetControlParameters">>)

\* a faulty variant of isBandLevelIndexInRange that is off by one at the top
isBandLevelIndexInRangeOffByOne(bandLevels) ==
    LET idx == {bandLevels[k].index : k \in 1 .. Len(bandLevels)}
        min == CHOOSE a \in idx : \A b \in idx : a <= b
        max == CHOOSE a \in idx : \A b \in idx : b <= a
    IN min >= 0 /\ max <= MAX_NUM_BANDS

\* std::minmax_element over the indices, then the two comparisons
isBandLevelIndexInRange(bandLevels) ==
    LET idx == {bandLevels[k].index : k \in 1 .. Len(bandLevels)}
        min == CHOOSE a \in idx : \A b \in idx : a <= b
        max == CHOOSE a \in idx : \A b \in idx : b <= a
    IN min >= 0 /\ max < MAX_NUM_BANDS

\* the bands that appear as an index of the update
NamedBands(bandLevels) == {bandLevels[k].index : k \in 1 .. Len(bandLevels)}

\* a faulty variant of TempLevel in which the first element naming a band wins
TempLevelFirstWins(bandLevels) ==
    [i \in NamedBands(bandLevels) |->
        LET at == {k \in 1 .. Len(bandLevels) : bandLevels[k].index = i}
        IN bandLevels[CHOOSE k \in at : \A j \in at : k <= j].levelMb]

\* std::array<int, MAX_NUM_BANDS> tempLevel after the loop over bandLevels.
\* An entry the loop wrote holds the level of the last element that named
\* it.  The array has no initialiser: an entry the loop never wrote is an
\* uninitialised int, and a read of it can give any int, another one in
\* each band, build and run.  No value is held for such an entry: tempLevel
\* is a function on the bands the update names, and so is every array it
\* is copied to.
TempLevel(bandLevels) ==
    [i \in NamedBands(bandLevels) |->
        LET at == {k \in 1 .. Len(bandLevels) : bandLevels[k].index = i}
        IN bandLevels[CHOOSE k \in at : \A j \in at : j <= k].levelMb]

updateControlParameter(c, e, bandLevels, f) ==
    IF ~isBandLevelIndexInRange(bandLevels)
    THEN Done(c, e, "ERROR_ILLEGAL_PARAMETER", <<>>)
    ELSE LET tempLevel == TempLevel(bandLevels)
             okGet == CallOk(c, f, 1)
             eW == WriteBandDefinitions(e, tempLevel)
             okSet == CallOk(c, f, 2)
             e1 == LVM_SetControlParameters(eW, eW.params, okSet)
         IN IF ~okGet
            THEN Done(c, e, "ERROR_EFFECT_LIB_ERROR", <<"LVM_GetControlParameters">>)
            ELSE IF ~okSet
            THEN Done(c, e1, "ERROR_EFFECT_LIB_ERROR",
                      <<"LVM_GetControlParameters", "LVM_SetControlParameters">>)
            ELSE Done([c EXCEPT !.mBandGaindB = tempLevel], e1, "SUCCESS",
                      <<"LVM_GetControlParameters", "LVM_SetControlParameters">>)

\* the vector setEqualizerPreset builds from the preset table
PresetBandLevels(presetIdx) ==
    [k \in 1 .. MAX_NUM_BANDS |->
        [index |-> k - 1, levelMb |-> kSoftPresets[presetIdx + 1][k]]]

setEqualizerPreset(c, e, presetIdx, f) ==
    IF presetIdx < 0 \/ presetIdx >= MAX_NUM_PRESETS
    THEN Done(c, e, "ERROR_ILLEGAL_PARAMETER", <<>>)
    ELSE LET r == updateControlParameter(c, e, PresetBandLevels(presetIdx), f)
         IN IF r.ret = "SUCCESS"
            THEN [r EXCEPT !.ctx.mCurPresetIdx = presetIdx] ELSE r

\* a faulty variant of setEqualizerBandLevels that leaves mCurPresetIdx alone
setEqualizerBandLevelsKeepsPreset(c, e, bandLevels, f) ==
    IF Len(bandLevels) > MAX_NUM_BANDS \/ Len(bandLevels) = 0
    THEN Done(c, e, "ERROR_ILLEGAL_PARAMETER", <<>>)
    ELSE updateControlParameter(c, e, bandLevels, f)

setEqualizerBandLevels(c, e, bandLevels, f) ==
    IF Len(bandLevels) > MAX_NUM_BANDS \/ Len(bandLevels) = 0
    THEN Done(c, e, "ERROR_ILLEGAL_PARAMETER", <<>>)
    ELSE LET r == updateControlParameter(c, e, bandLevels, f)
         IN IF r.ret = "SUCCESS"
            THEN [r EXCEPT !.ctx.mCurPresetIdx = PRESET_CUSTOM] ELSE r

\* one BandLevel per band, carrying mBandGaindB[i]; the element of a band
\* whose gain is not determined carries no level
getEqualizerBandLevels(c) ==
    [k \in 1 .. MAX_NUM_BANDS |->
        IF k - 1 \in DOMAIN c.mBandGaindB
        THEN [index |-> k - 1, levelMb |-> c.mBandGaindB[k - 1]]
        ELSE [index |-> k - 1]]


(***************************************************************************)
(* The state after construction, and one step per handler.                 *)
(***************************************************************************)
\* getCommon().input.frameCount, getCommon().output.frameCount and
\* getInputFrameSize() of the sessions modelled
FrameConfigs ==
    {[in |-> 256, out |-> 256, size |-> 8],
     [in |-> 256, out |-> 128, size |-> 8],
     [in |-> 256, out |-> 256, size |-> 0]}

\* the members of a BundleContext of the given type and configuration,
\* before init()
Constructed(type, rate, frames) ==
    [mInstance |-> NULL,
     mBandGaindB |-> [i \in Bands |-> 0],
     mCurPresetIdx |-> PRESET_CUSTOM,
     mEnabled |-> FALSE,
     mType |-> type,
     mSamplesPerSecond |-> rate,
     mSamplesToExitCountEq |-> 0,
     mNumberEffectsEnabled |-> 0,
     mNumberEffectsCalled |-> 0,
     mEffectProcessCalled |-> {},
     mEffectInDrain |-> {},
     mFirstVolume |-> TRUE,
     mLevelSaved |-> 0,
     mVolumeStereo |-> [left |-> 1, right |-> 1],
     inputFrameCount |-> frames.in,
     outputFrameCount |-> frames.out,
     frameSize |-> frames.size]

NoEngine == [created |-> 0, destroyed |-> 0, params |-> initControlParameter]

\* what is remembered of the last call: the handler, its arguments, the
\* value it returned, the engine calls it made and whether one of them
\* failed, for lvmProcess the frame counts reported, the output buffer and
\* whether data was available, and for getEqualizerBandLevels the vector
\* returned
NoArgs == [presetIdx |-> 0, bandLevels |-> <<>>, volume |-> [left |-> 0, right |-> 0],
           in |-> NULL, out |-> NULL, samples |-> 0]

NoCall == [op |-> "none", arg |-> NoArgs, ret |-> "none", calls |-> <<>>,
           failed |-> FALSE, consumed |-> 0, produced |-> 0, out |-> "NONE",
           avail |-> TRUE, got |-> <<>>]

\* the locals of a handler that matter between its statements: the handler
\* running, the samples argument and isDataAvailable of lvmProcess, the
\* registers that hold the value the handler loaded from
\* mNumberEffectsEnabled and from mSamplesToExitCountEq, and the members
\* whose stores the handler has still to make
NoLocals == [op |-> "none", samples |-> 0, avail |-> TRUE,
             nEnabled |-> 0, count |-> 0, stores |-> {}]

\* did an engine call of the handler fail: the handler made calls, and the
\* handle was null or the failing call f is among them
EngineFailed(c, f, calls) ==
    calls # <<>> /\ (c.mInstance = NULL \/ f \in 1 .. Len(calls))

\* the buffer-processing scenario: init, enable, process 2000 samples,
\* disable, process 3000 samples twice.  scen counts how many of its calls
\* the behaviour has made so far, and is -1 once it has left the scenario.
Scenario ==
    << <<"init", 0>>, <<"enable", 0>>, <<"lvmProcess", 2000>>, <<"disable", 0>>,
       <<"lvmProcess", 3000>>, <<"lvmProcess", 3000>> >>

ScenarioNext(s, op, arg, ret) ==
    IF s >= 0 /\ s < Len(Scenario) /\ Scenario[s + 1] = <<op, arg>>
       /\ ret \in {"SUCCESS", "STATUS_OK"}
    THEN s + 1 ELSE -1

Idle ==
    /\ mMutex = "none"
    /\ \A t \in Threads : pc[t] = "idle"

\* the step of a handler that ran to its return r (or, for "HANG", blocked
\* for ever inside the call with mMutex held)
Return(op, arg, r, sarg, failed) ==
    /\ ctx' = r.ctx
    /\ eng' = r.eng
    /\ last' = [NoCall EXCEPT !.op = op, !.arg = arg, !.ret = r.ret, !.calls = r.calls,
                              !.failed = failed]
    /\ scen' = ScenarioNext(scen, op, sarg, r.ret)
    /\ IF r.ret = "HANG"
       THEN /\ mMutex' = "control"
            /\ pc' = [pc EXCEPT !["control"] = "hung"]
       ELSE UNCHANGED <<mMutex, pc>>
    /\ UNCHANGED <<loc, inEngine>>

DoInit ==
    /\ Idle
    /\ eng.created < MaxInstances
    /\ \E f \in 0 .. 3 : Return("init", NoArgs, init(ctx, eng, f), 0, f # 0)

DoDeInit ==
    /\ Idle
    /\ Return("deInit", NoArgs, deInit(ctx, eng), 0, FALSE)

DoEnable ==
    /\ Idle
    /\ ctx.mNumberEffectsEnabled < MaxEnabled
    /\ \E f \in FailPoints : Return("enable", NoArgs, enable(ctx, eng, f), 0,
                                 EngineFailed(ctx, f, enable(ctx, eng, f).calls))

DoDisable ==
    /\ Idle
    /\ \E f \in FailPoints : Return("disable", NoArgs, disable(ctx, eng, f), 0,
                                 EngineFailed(ctx, f, disable(ctx, eng, f).calls))

DoLvmProcess ==
    /\ Idle
    /\ \E in \in {NULL, 1}, out \in {NULL, 1}, samples \in SampleCounts, f \in 0 .. 1 :
          LET r == lvmProcess(ctx, eng, in, out, samples, f)
          IN /\ ctx' = r.ctx
             /\ eng' = r.eng
             /\ last' = [op |-> "lvmProcess",
                         arg |-> [NoArgs EXCEPT !.in = in, !.out = out,
                                                !.samples = samples],
                         ret |-> r.ret, calls |-> r.calls,
                         failed |-> EngineFailed(ctx, f, r.calls), consumed |-> r.consumed,
                         produced |-> r.produced, out |-> r.out, avail |-> r.avail,
                         got |-> <<>>]
             /\ scen' = ScenarioNext(scen, "lvmProcess", samples, r.ret)
             /\ UNCHANGED <<mMutex, pc, loc, inEngine>>

\* the volumes drawn: the two channels differ, either way round
VolumePairs ==
    {[left |-> l, right |-> r] : l \in VolumeInputs, r \in VolumeInputs} \
    {[left |-> v, right |-> v] : v \in VolumeInputs}

DoSetVolumeStereo ==
    /\ Idle
    /\ \E volume \in VolumePairs, f \in 0 .. 2 :
          LET r == setVolumeStereo(ctx, eng, volume, f)
          IN Return("setVolumeStereo", [NoArgs EXCEPT !.volume = volume], r, 0, EngineFailed(ctx, f, r.calls))

\* the preset indices drawn: the first and the last preset, one in
\* between, and the two indices after the last
PresetInputs == {0, 5, MAX_NUM_PRESETS - 1, MAX_NUM_PRESETS, MAX_NUM_PRESETS + 1}

DoSetEqualizerPreset ==
    /\ Idle
    /\ \E presetIdx \in PresetInputs :
          \E f \in IF presetIdx < MAX_NUM_PRESETS THEN 0 .. 2 ELSE {0} :
             LET r == setEqualizerPreset(ctx, eng, presetIdx, f)
             IN Return("setEqualizerPreset", [NoArgs EXCEPT !.presetIdx = presetIdx], r, 0,
                       EngineFailed(ctx, f, r.calls))

\* the band-level updates drawn: the empty vector; the vectors of one
\* entry whose index is the first or the last band or lies just outside
\* the range; the vectors of two entries, carrying different levels, that
\* name band 0 twice, two bands in the middle, the last band and the index
\* after it, or the index before band 0 and band 0; and the vectors of
\* MAX_NUM_BANDS and MAX_NUM_BANDS + 1 entries that name the bands in order
SingleIndices == {-1, 0, MAX_NUM_BANDS - 1, MAX_NUM_BANDS}

IndexPairs == {<<0, 0>>, <<1, 2>>, <<MAX_NUM_BANDS - 1, MAX_NUM_BANDS>>, <<-1, 0>>}

BandLevelUpdates ==
    {<<>>}
    \cup {<<[index |-> i, levelMb |-> l]>> : i \in SingleIndices, l \in UpdateLevels}
    \cup {<<[index |-> ij[1], levelMb |-> p[1]], [index |-> ij[2], levelMb |-> p[2]]>> :
             ij \in IndexPairs, p \in UpdateLevelPairs}
    \cup {[k \in 1 .. n |-> [index |-> (k - 1) % MAX_NUM_BANDS, levelMb |-> l]] :
             n \in {MAX_NUM_BANDS, MAX_NUM_BANDS + 1}, l \in UpdateLevels}

\* does the update pass the checks made before the first engine call
UpdateAccepted(bandLevels) ==
    /\ Len(bandLevels) \in 1 .. MAX_NUM_BANDS
    /\ isBandLevelIndexInRange(bandLevels)

DoSetEqualizerBandLevels ==
    /\ Idle
    /\ \E bandLevels \in BandLevelUpdates :
          \E f \in IF UpdateAccepted(bandLevels) THEN 0 .. 2 ELSE {0} :
             LET r == setEqualizerBandLevels(ctx, eng, bandLevels, f)
             IN Return("setEqualizerBandLevels", [NoArgs EXCEPT !.bandLevels = bandLevels], r, 0,
                       EngineFailed(ctx, f, r.calls))

DoGetEqualizerBandLevels ==
    /\ Idle
    /\ last' = [NoCall EXCEPT !.op = "getEqualizerBandLevels", !.ret = "SUCCESS",
                              !.got = getEqualizerBandLevels(ctx)]
    /\ scen' = -1
    /\ UNCHANGED <<ctx, eng, mMutex, pc, loc, inEngine>>

\* one thread drives a session through its life cycle and its processing
Init ==
    /\ ctx \in {Constructed(type, rate, frames) :
                   type \in BundleEffectType, rate \in SampleRates, frames \in FrameConfigs}
    /\ eng = NoEngine
    /\ last = NoCall
    /\ scen = 0
    /\ mMutex = "none"
    /\ pc = [t \in Threads |-> "idle"]
    /\ loc = [t \in Threads |-> NoLocals]
    /\ inEngine = {}

Next ==
    \/ DoInit
    \/ DoDeInit
    \/ DoEnable
    \/ DoDisable
    \/ DoLvmProcess

Spec == Init /\ [][Next]_vars

\* one thread drives the parameter store of an EQUALIZER session that
\* init() has set up
InitParam ==
    LET r == init(Constructed(EQUALIZER, 44100, [in |-> 256, out |-> 256, size |-> 8]),
                  NoEngine, 0)
    IN /\ ctx = r.ctx
       /\ eng = r.eng
       /\ last = NoCall
       /\ scen = -1
       /\ mMutex = "none"
       /\ pc = [t \in Threads |-> "idle"]
       /\ loc = [t \in Threads |-> NoLocals]
       /\ inEngine = {}

NextParam ==
    \/ DoSetVolumeStereo
    \/ DoSetEqualizerPreset
    \/ DoSetEqualizerBandLevels
    \/ DoGetEqualizerBandLevels

SpecParam == InitParam /\ [][NextParam]_vars

(***************************************************************************)
(* Two threads on one session: the control thread calls init, deInit,     *)
(* enable and disable, the audio thread calls lvmProcess.  A handler runs  *)
(* one statement on the shared members per step; pc[t] names the statement *)
(* thread t executes next, loc[t] holds the handler's locals, mMutex the   *)
(* thread that owns the session mutex, and inEngine the threads that are   *)
(* inside an engine call.                                                  *)
(***************************************************************************)
\* a faulty variant of lock_guard that does not acquire the mutex
lock_guardSkipped(t) == mMutex' = mMutex

\* std::lock_guard lg(mMutex): the thread goes on once the mutex is free,
\* and owns it
lock_guard(t) == mMutex = "none" /\ mMutex' = t

\* the end of the scope of a lock_guard
Unlock == mMutex' = "none"

\* the statements that are engine calls, and the function each one calls
EngineCallAt ==
    [init_get |-> "LVM_GetInstanceHandle",
     init_set |-> "LVM_SetControlParameters",
     init_headroom |-> "LVM_SetHeadroomParams",
     deinit_del |-> "LVM_DelInstanceHandle",
     om_get |-> "LVM_GetControlParameters",
     om_set |-> "LVM_SetControlParameters",
     ll_get |-> "LVM_GetControlParameters",
     ll_set |-> "LVM_SetControlParameters",
     ll_vol |-> "LVM_SetVolumeNoSmoothing",
     p_process |-> "LVM_Process",
     ucp_get |-> "LVM_GetControlParameters",
     ucp_set |-> "LVM_SetControlParameters"]

\* the results an engine call on the session's handle can have
OkChoices == IF ctx.mInstance = NULL THEN {FALSE} ELSE BOOLEAN

Goto(t, label) == pc' = [pc EXCEPT ![t] = label]

\* thread t starts the handler op
Enter(t, op, samples, label) ==
    /\ pc[t] = "idle"
    /\ Goto(t, label)
    /\ loc' = [loc EXCEPT ![t] = [NoLocals EXCEPT !.op = op, !.samples = samples]]

\* the handler of thread t returns ret
Leave(t, ret) ==
    /\ Goto(t, "idle")
    /\ loc' = [loc EXCEPT ![t] = NoLocals]
    /\ last' = [NoCall EXCEPT !.op = loc[t].op, !.ret = ret]
    /\ scen' = -1

\* thread t is inside the engine call of site
In(t, site) == pc[t] = site /\ t \in inEngine

\* thread t enters the engine call its next statement makes
EnterEngine(t) ==
    /\ pc[t] \in DOMAIN EngineCallAt
    /\ t \notin inEngine
    /\ inEngine' = inEngine \cup {t}
    /\ UNCHANGED <<ctx, eng, last, scen, mMutex, pc, loc>>

\* thread t comes back from its engine call
ExitEngine(t) == inEngine' = inEngine \ {t}

(* init, lines 27-60 *)
CallInit ==
    /\ eng.created < MaxConcInstances
    /\ Enter("control", "init", 0, "init_get")
    /\ lock_guard("control")
    /\ ctx' = [ctx EXCEPT !.mBandGaindB = PresetGains(0)]
    /\ UNCHANGED <<eng, last, scen, inEngine>>

InitGetInstanceHandle ==
    /\ In("control", "init_get")
    /\ ExitEngine("control")
    /\ \E ok \in BOOLEAN :
          /\ eng' = LVM_GetInstanceHandle(eng, ok)
          /\ ctx' = IF ok THEN [ctx EXCEPT !.mInstance = HANDLE] ELSE ctx
          /\ Goto("control", IF ok THEN "init_set" ELSE "init_fail")
    /\ UNCHANGED <<last, scen, mMutex, loc>>

InitSetControlParameters ==
    /\ In("control", "init_set")
    /\ ExitEngine("control")
    /\ \E ok \in OkChoices :
          /\ eng' = LVM_SetControlParameters(eng, initControlParameter, ok)
          /\ Goto("control", IF ok THEN "init_headroom" ELSE "init_fail")
    /\ UNCHANGED <<ctx, last, scen, mMutex, loc>>

InitSetHeadroomParams ==
    /\ In("control", "init_headroom")
    /\ ExitEngine("control")
    /\ \E ok \in OkChoices :
          IF ok
          THEN Unlock /\ Leave("control", "SUCCESS")
          ELSE Goto("control", "init_fail") /\ UNCHANGED <<last, scen, mMutex, loc>>
    /\ UNCHANGED <<ctx, eng>>

\* deinit: deInit() locks mMutex, which the thread owns: it waits for
\* itself
InitFail ==
    /\ pc["control"] = "init_fail"
    /\ Goto("control", "hung")
    /\ UNCHANGED <<ctx, eng, last, scen, mMutex, loc, inEngine>>

(* deInit, lines 62-68 *)
CallDeInit ==
    /\ Enter("control", "deInit", 0, "deinit_test")
    /\ lock_guard("control")
    /\ UNCHANGED <<ctx, eng, last, scen, inEngine>>

DeInitTest ==
    /\ pc["control"] = "deinit_test"
    /\ IF ctx.mInstance # NULL
       THEN Goto("control", "deinit_del") /\ UNCHANGED <<last, scen, mMutex, loc>>
       ELSE Unlock /\ Leave("control", "void")
    /\ UNCHANGED <<ctx, eng, inEngine>>

DeInitDelInstanceHandle ==
    /\ In("control", "deinit_del")
    /\ ExitEngine("control")
    /\ eng' = LVM_DelInstanceHandle(eng)
    /\ ctx' = [ctx EXCEPT !.mInstance = NULL]
    /\ Unlock
    /\ Leave("control", "void")

(* enable, lines 70-85, and disable, lines 108-121.  No statement of them *)
(* holds mMutex, and the members they read and write are plain ints and    *)
(* bools that lvmProcess reads and writes on the audio thread.  The        *)
(* increment of line 75 is a load into a register and a later store of the *)
(* register plus one.  The stores that follow have no order among them     *)
(* that another thread can rely on (builds have made them in the order of  *)
(* the source and with line 76 last): each is one step, taken in any       *)
(* order.  A store to mEffectInDrain sets or clears the one bit the        *)
(* session's type uses, so the value stored does not depend on the load.   *)
\* the handler op of the control thread goes on at label, with stores to make
EnterStores(op, label, stores) ==
    /\ Goto("control", label)
    /\ loc' = [loc EXCEPT !["control"] = [NoLocals EXCEPT !.op = op, !.stores = stores]]

CallEnable ==
    /\ ctx.mNumberEffectsEnabled < MaxEnabled
    /\ pc["control"] = "idle"
    /\ IF ctx.mEnabled
       THEN /\ last' = [NoCall EXCEPT !.op = "enable", !.ret = AlreadyInState]
            /\ scen' = -1
            /\ UNCHANGED <<pc, loc>>
       ELSE /\ IF ctx.mType = EQUALIZER
               THEN EnterStores("enable", "en_count",
                                {"mSamplesToExitCountEq", "mEffectInDrain", "mEnabled"})
               ELSE EnterStores("enable", "en_stores", {"mEnabled"})
            /\ UNCHANGED <<last, scen>>
    /\ UNCHANGED <<ctx, eng, mMutex, inEngine>>

\* if (mSamplesToExitCountEq <= 0) mNumberEffectsEnabled++;  the test, and
\* the load of mNumberEffectsEnabled
EnableCount ==
    /\ pc["control"] = "en_count"
    /\ IF ctx.mSamplesToExitCountEq <= 0
       THEN /\ Goto("control", "en_inc")
            /\ loc' = [loc EXCEPT !["control"].nEnabled = ctx.mNumberEffectsEnabled]
       ELSE /\ Goto("control", "en_stores")
            /\ UNCHANGED loc
    /\ UNCHANGED <<ctx, eng, last, scen, mMutex, inEngine>>

\* mNumberEffectsEnabled++: the store of the value loaded, plus one
EnableIncrement ==
    /\ pc["control"] = "en_inc"
    /\ ctx' = [ctx EXCEPT !.mNumberEffectsEnabled = loc["control"].nEnabled + 1]
    /\ loc' = [loc EXCEPT !["control"].nEnabled = NoLocals.nEnabled]
    /\ Goto("control", "en_stores")
    /\ UNCHANGED <<eng, last, scen, mMutex, inEngine>>

\* the session after the store of enable() to member
EnableStored(c, member) ==
    CASE member = "mSamplesToExitCountEq" ->
            [c EXCEPT !.mSamplesToExitCountEq = DrainBudget(c.mSamplesPerSecond)]
      [] member = "mEffectInDrain" -> [c EXCEPT !.mEffectInDrain = @ \ {EQUALIZER}]
      [] member = "mEnabled" -> [c EXCEPT !.mEnabled = TRUE]

\* the session after the store of disable() to member
DisableStored(c, member) ==
    CASE member = "mEffectInDrain" -> [c EXCEPT !.mEffectInDrain = @ \cup {EQUALIZER}]
      [] member = "mEnabled" -> [c EXCEPT !.mEnabled = FALSE]

\* one of the stores the handler has still to make; after the last one the
\* handler calls enableOperatingMode() or disableOperatingMode()
StoreOne(label) ==
    /\ pc["control"] = label
    /\ \E member \in loc["control"].stores :
          /\ ctx' = IF loc["control"].op = "enable"
                    THEN EnableStored(ctx, member) ELSE DisableStored(ctx, member)
          /\ loc' = [loc EXCEPT !["control"].stores = @ \ {member}]
          /\ Goto("control", IF loc["control"].stores = {member} THEN "om_lock" ELSE label)
    /\ UNCHANGED <<eng, last, scen, mMutex, inEngine>>

\* mSamplesToExitCountEq = (mSamplesPerSecond * 0.1);
\* mEffectInDrain &= ~(1 << int(EQUALIZER));  mEnabled = true;
EnableStore == StoreOne("en_stores")

CallDisable ==
    /\ pc["control"] = "idle"
    /\ IF ~ctx.mEnabled
       THEN /\ last' = [NoCall EXCEPT !.op = "disable", !.ret = AlreadyInState]
            /\ scen' = -1
            /\ UNCHANGED <<pc, loc>>
       ELSE /\ EnterStores("disable", "dis_stores",
                           IF ctx.mType = EQUALIZER
                           THEN {"mEffectInDrain", "mEnabled"} ELSE {"mEnabled"})
            /\ UNCHANGED <<last, scen>>
    /\ UNCHANGED <<ctx, eng, mMutex, inEngine>>

\* mEffectInDrain |= 1 << int(EQUALIZER);  mEnabled = false;
DisableStore == StoreOne("dis_stores")

(* enableOperatingMode, lines 87-106, and disableOperatingMode, 123-143 *)
OperatingModeLock ==
    /\ pc["control"] = "om_lock"
    /\ lock_guard("control")
    /\ Goto("control", "om_get")
    /\ UNCHANGED <<ctx, eng, last, scen, loc, inEngine>>

OperatingModeGet ==
    /\ In("control", "om_get")
    /\ ExitEngine("control")
    /\ \E ok \in OkChoices :
          IF ok
          THEN Goto("control", "om_set") /\ UNCHANGED <<last, scen, mMutex, loc>>
          ELSE Unlock /\ Leave("control", "ERROR_EFFECT_LIB_ERROR")
    /\ UNCHANGED <<ctx, eng>>

OperatingModeSet ==
    /\ In("control", "om_set")
    /\ ExitEngine("control")
    /\ \E ok \in OkChoices :
          LET mode == IF loc["control"].op = "enable" THEN "LVM_EQNB_ON"
                      ELSE "LVM_EQNB_OFF"
              params == IF ctx.mType = EQUALIZER
                        THEN [eng.params EXCEPT !.EQNB_OperatingMode = mode]
                        ELSE eng.params
          IN /\ eng' = LVM_SetControlParameters(eng, params, ok)
             /\ Unlock
             /\ IF ok
                THEN /\ Goto("control", IF loc["control"].op = "enable"
                                        THEN "ll_lock" ELSE "dom_flag")
                     /\ UNCHANGED <<last, scen, loc>>
                ELSE Leave("control", "ERROR_EFFECT_LIB_ERROR")
    /\ UNCHANGED ctx

\* mEnabled = false; return limitLevel();  (disableOperatingMode, line 141)
DisableOperatingModeFlag ==
    /\ pc["control"] = "dom_flag"
    /\ ctx' = [ctx EXCEPT !.mEnabled = FALSE]
    /\ Goto("control", "ll_lock")
    /\ UNCHANGED <<eng, last, scen, mMutex, loc, inEngine>>

(* limitLevel, lines 145-217 *)
LimitLevelLock ==
    /\ pc["control"] = "ll_lock"
    /\ lock_guard("control")
    /\ Goto("control", "ll_get")
    /\ UNCHANGED <<ctx, eng, last, scen, loc, inEngine>>

LimitLevelGet ==
    /\ In("control", "ll_get")
    /\ ExitEngine("control")
    /\ \E ok \in OkChoices :
          IF ok
          THEN Goto("control", "ll_set") /\ UNCHANGED <<last, scen, mMutex, loc>>
          ELSE Unlock /\ Leave("control", "ERROR_EFFECT_LIB_ERROR")
    /\ UNCHANGED <<ctx, eng>>

LimitLevelSet ==
    /\ In("control", "ll_set")
    /\ ExitEngine("control")
    /\ \E ok \in OkChoices :
          LET eqEnabled == eng.params.EQNB_OperatingMode = "LVM_EQNB_ON"
              params == [eng.params EXCEPT !.VC_EffectLevel =
                            EffectLevel(ctx.mBandGaindB, eqEnabled, ctx.mLevelSaved)]
          IN /\ eng' = LVM_SetControlParameters(eng, params, ok)
             /\ IF ok /\ ctx.mFirstVolume
                THEN Goto("control", "ll_vol") /\ UNCHANGED <<last, scen, mMutex, loc>>
                ELSE /\ Unlock
                     /\ Leave("control", IF ok THEN "SUCCESS" ELSE "ERROR_EFFECT_LIB_ERROR")
    /\ UNCHANGED ctx

LimitLevelSetVolumeNoSmoothing ==
    /\ In("control", "ll_vol")
    /\ ExitEngine("control")
    /\ \E ok \in OkChoices :
          /\ ctx' = IF ok THEN [ctx EXCEPT !.mFirstVolume = FALSE] ELSE ctx
          /\ Unlock
          /\ Leave("control", IF ok THEN "SUCCESS" ELSE "ERROR_EFFECT_LIB_ERROR")
    /\ UNCHANGED eng

(* lvmProcess, lines 454-541: only LVM_Process is called with mMutex held. *)
(* The members it shares with enable() and disable() are read and written  *)
(* without a lock.  A build may load mNumberEffectsEnabled and             *)
(* mSamplesToExitCountEq once into a register and use the register         *)
(* afterwards, or load the member at each use: a use reads the register or *)
(* the member.  A decrement and the subtraction are a load and a later     *)
(* store of the value computed from the load.  A register is cleared after *)
(* the last statement that can use it.                                     *)
CallLvmProcess ==
    /\ ArgumentStatus(ctx, HANDLE, HANDLE) = "STATUS_OK"
    /\ ctx.mNumberEffectsEnabled > -MaxDeficit
    /\ \E samples \in ConcSampleCounts : Enter("audio", "lvmProcess", samples, "p_forced")
    /\ UNCHANGED <<ctx, eng, last, scen, mMutex, inEngine>>

\* the values a use of mNumberEffectsEnabled by lvmProcess can read
EnabledRead == {loc["audio"].nEnabled, ctx.mNumberEffectsEnabled}

\* the values a use of mSamplesToExitCountEq by lvmProcess can read
CountRead == {loc["audio"].count, ctx.mSamplesToExitCountEq}

\* the consistency self-repair, mEffectProcessCalled |= 1 << int(mType),
\* and the loads at the head of lvmProcess.  The repair needs the bit of
\* EQUALIZER set in mEffectInDrain and clear in mEffectProcessCalled while
\* the bit of mType is set there: it applies to no session whose type is
\* EQUALIZER, so that its stores are not separate steps.
ProcessForcedDrain ==
    /\ pc["audio"] = "p_forced"
    /\ ctx' = [ForcedDrain(ctx) EXCEPT !.mEffectProcessCalled = @ \cup {ctx.mType}]
    /\ loc' = [loc EXCEPT !["audio"].nEnabled = ForcedDrain(ctx).mNumberEffectsEnabled,
                          !["audio"].count = ForcedDrain(ctx).mSamplesToExitCountEq]
    /\ Goto("audio", "p_enabled")
    /\ UNCHANGED <<eng, last, scen, mMutex, inEngine>>

\* if (!mEnabled) switch (mType) case EQUALIZER
ProcessTestEnabled ==
    /\ pc["audio"] = "p_enabled"
    /\ IF ~ctx.mEnabled /\ ctx.mType = EQUALIZER
       THEN Goto("audio", "p_sub") /\ UNCHANGED loc
       ELSE /\ Goto("audio", "p_called")
            /\ loc' = [loc EXCEPT !["audio"].count = NoLocals.count]
    /\ UNCHANGED <<ctx, eng, last, scen, mMutex, inEngine>>

\* if (mSamplesToExitCountEq > 0) mSamplesToExitCountEq -= samples;  the
\* load and the test
ProcessSubtract ==
    /\ pc["audio"] = "p_sub"
    /\ \E count \in CountRead :
          /\ loc' = [loc EXCEPT !["audio"].count = count]
          /\ Goto("audio", IF count > 0 THEN "p_sub_w" ELSE "p_check")
    /\ UNCHANGED <<ctx, eng, last, scen, mMutex, inEngine>>

\* mSamplesToExitCountEq -= samples: the store of the value loaded, less
\* samples
ProcessSubtractStore ==
    /\ pc["audio"] = "p_sub_w"
    /\ ctx' = [ctx EXCEPT !.mSamplesToExitCountEq = loc["audio"].count - loc["audio"].samples]
    /\ loc' = [loc EXCEPT !["audio"].count = @ - loc["audio"].samples]
    /\ Goto("audio", "p_check")
    /\ UNCHANGED <<eng, last, scen, mMutex, inEngine>>

\* if (mSamplesToExitCountEq <= 0) isDataAvailable = false;
ProcessCheck ==
    /\ pc["audio"] = "p_check"
    /\ \E count \in CountRead :
          IF count <= 0
          THEN /\ Goto("audio", "p_last")
               /\ loc' = [loc EXCEPT !["audio"].avail = FALSE,
                                     !["audio"].count = NoLocals.count]
          ELSE /\ Goto("audio", "p_called")
               /\ loc' = [loc EXCEPT !["audio"].count = NoLocals.count]
    /\ UNCHANGED <<ctx, eng, last, scen, mMutex, inEngine>>

\* if (mEffectInDrain & EQUALIZER bit) mNumberEffectsEnabled--;  the test,
\* and the load of mNumberEffectsEnabled
ProcessLastFrame ==
    /\ pc["audio"] = "p_last"
    /\ IF EQUALIZER \in ctx.mEffectInDrain
       THEN \E nEnabled \in EnabledRead :
               /\ loc' = [loc EXCEPT !["audio"].nEnabled = nEnabled]
               /\ Goto("audio", "p_last_w")
       ELSE Goto("audio", "p_called") /\ UNCHANGED loc
    /\ UNCHANGED <<ctx, eng, last, scen, mMutex, inEngine>>

\* mNumberEffectsEnabled--: the store of the value loaded, less one
ProcessLastFrameStore ==
    /\ pc["audio"] = "p_last_w"
    /\ ctx' = [ctx EXCEPT !.mNumberEffectsEnabled = loc["audio"].nEnabled - 1]
    /\ loc' = [loc EXCEPT !["audio"].nEnabled = @ - 1]
    /\ Goto("audio", "p_last_d")
    /\ UNCHANGED <<eng, last, scen, mMutex, inEngine>>

\* mEffectInDrain &= ~(1 << int(EQUALIZER));
ProcessLastFrameDrain ==
    /\ pc["audio"] = "p_last_d"
    /\ ctx' = [ctx EXCEPT !.mEffectInDrain = @ \ {EQUALIZER}]
    /\ Goto("audio", "p_called")
    /\ UNCHANGED <<eng, last, scen, mMutex, loc, inEngine>>

\* if (isDataAvailable) mNumberEffectsCalled++;
\* if (mNumberEffectsCalled >= mNumberEffectsEnabled): reset the round and
\* go to LVM_Process; else copy the input and return.  mNumberEffectsCalled
\* and mEffectProcessCalled are touched by lvmProcess only.
ProcessCalled ==
    /\ pc["audio"] = "p_called"
    /\ \E nEnabled \in EnabledRead :
          LET c1 == IF loc["audio"].avail
                    THEN [ctx EXCEPT !.mNumberEffectsCalled = @ + 1] ELSE ctx
          IN IF EndOfRound([c1 EXCEPT !.mNumberEffectsEnabled = nEnabled])
             THEN /\ ctx' = [c1 EXCEPT !.mEffectProcessCalled = {},
                                       !.mNumberEffectsCalled = 0]
                  /\ Goto("audio", "p_lock")
                  /\ loc' = [loc EXCEPT !["audio"].nEnabled = NoLocals.nEnabled,
                                        !["audio"].avail = NoLocals.avail]
                  /\ UNCHANGED <<last, scen>>
             ELSE /\ ctx' = c1
                  /\ Leave("audio", "STATUS_OK")
    /\ UNCHANGED <<eng, mMutex, inEngine>>

ProcessLock ==
    /\ pc["audio"] = "p_lock"
    /\ lock_guard("audio")
    /\ Goto("audio", "p_process")
    /\ UNCHANGED <<ctx, eng, last, scen, loc, inEngine>>

ProcessLvm ==
    /\ In("audio", "p_process")
    /\ ExitEngine("audio")
    /\ \E ok \in OkChoices :
          /\ Unlock
          /\ Leave("audio", IF ok THEN "STATUS_OK" ELSE "EX_UNSUPPORTED_OPERATION")
    /\ UNCHANGED <<ctx, eng>>

\* a constructed EQUALIZER session at 44100 Hz (drain budget 4410)
InitConc ==
    /\ ctx = Constructed(EQUALIZER, 44100, [in |-> 256, out |-> 256, size |-> 8])
    /\ eng = NoEngine
    /\ last = NoCall
    /\ scen = -1
    /\ mMutex = "none"
    /\ pc = [t \in Threads |-> "idle"]
    /\ loc = [t \in Threads |-> NoLocals]
    /\ inEngine = {}

NextConc ==
    \/ \E t \in Threads : EnterEngine(t)
    \/ CallInit
    \/ InitGetInstanceHandle
    \/ InitSetControlParameters
    \/ InitSetHeadroomParams
    \/ InitFail
    \/ CallDeInit
    \/ DeInitTest
    \/ DeInitDelInstanceHandle
    \/ CallEnable
    \/ EnableCount
    \/ EnableIncrement
    \/ EnableStore
    \/ CallDisable
    \/ DisableStore
    \/ OperatingModeLock
    \/ OperatingModeGet
    \/ OperatingModeSet
    \/ DisableOperatingModeFlag
    \/ LimitLevelLock
    \/ LimitLevelGet
    \/ LimitLevelSet
    \/ LimitLevelSetVolumeNoSmoothing
    \/ CallLvmProcess
    \/ ProcessForcedDrain
    \/ ProcessTestEnabled
    \/ ProcessSubtract
    \/ ProcessSubtractStore
    \/ ProcessCheck
    \/ ProcessLastFrame
    \/ ProcessLastFrameStore
    \/ ProcessLastFrameDrain
    \/ ProcessCalled
    \/ ProcessLock
    \/ ProcessLvm

SpecConc == InitConc /\ [][NextConc]_vars

(***************************************************************************)
(* Two control threads on the parameter store of one initialised           *)
(* EQUALIZER session: each calls setEqualizerPreset and                    *)
(* setEqualizerBandLevels.  loc[t] holds the handler thread t runs, its    *)
(* preset argument, tempLevel, the bands whose int of tempLevel it has      *)
(* copied to mBandGaindB, and the value its last call returned.            *)
(***************************************************************************)
ParamThreads == {"t1", "t2"}

\* the preset and the band-level vector (every band named, in order, at
\* one level) each of the two threads sets
ConcPresets == {1}

RacingUpdates ==
    {[k \in 1 .. MAX_NUM_BANDS |-> [index |-> k - 1, levelMb |-> l]] : l \in {4}}

\* the band-level vectors (every band named, in order) a single thread sets
ConcUpdates ==
    {[k \in 1 .. MAX_NUM_BANDS |-> [index |-> k - 1, levelMb |-> l]] : l \in UpdateLevels}

NoParamLocals ==
    [op |-> "none", presetIdx |-> PRESET_CUSTOM, tempLevel |-> [i \in Bands |-> 0],
     copied |-> {}, ret |-> "none"]

\* the handler of thread t returns ret
ParamLeave(t, ret) ==
    /\ Goto(t, "idle")
    /\ loc' = [loc EXCEPT ![t].ret = ret]
    /\ last' = [NoCall EXCEPT !.op = loc[t].op, !.ret = ret]

\* setEqualizerPreset up to the lock of updateControlParameter: the range
\* check, the vector built from the preset table, the loop into tempLevel
CallSetEqualizerPreset(t) ==
    /\ pc[t] = "idle"
    /\ \E presetIdx \in ConcPresets :
          /\ ~(presetIdx < 0 \/ presetIdx >= MAX_NUM_PRESETS)
          /\ isBandLevelIndexInRange(PresetBandLevels(presetIdx))
          /\ loc' = [loc EXCEPT ![t] =
                        [op |-> "setEqualizerPreset", presetIdx |-> presetIdx,
                         tempLevel |-> TempLevel(PresetBandLevels(presetIdx)),
                         copied |-> {}, ret |-> "none"]]
    /\ Goto(t, "ucp_lock")
    /\ UNCHANGED <<ctx, eng, last, scen, mMutex, inEngine>>

\* setEqualizerBandLevels up to the lock of updateControlParameter
CallSetEqualizerBandLevels(t) ==
    /\ pc[t] = "idle"
    /\ \E bandLevels \in RacingUpdates :
          /\ ~(Len(bandLevels) > MAX_NUM_BANDS \/ Len(bandLevels) = 0)
          /\ isBandLevelIndexInRange(bandLevels)
          /\ loc' = [loc EXCEPT ![t] =
                        [op |-> "setEqualizerBandLevels", presetIdx |-> PRESET_CUSTOM,
                         tempLevel |-> TempLevel(bandLevels),
                         copied |-> {}, ret |-> "none"]]
    /\ Goto(t, "ucp_lock")
    /\ UNCHANGED <<ctx, eng, last, scen, mMutex, inEngine>>

\* std::lock_guard lg(mMutex), line 350
UpdateLock(t) ==
    /\ pc[t] = "ucp_lock"
    /\ lock_guard(t)
    /\ Goto(t, "ucp_get")
    /\ UNCHANGED <<ctx, eng, last, scen, loc, inEngine>>

\* LVM_GetControlParameters, lines 351-352
UpdateGet(t) ==
    /\ In(t, "ucp_get")
    /\ ExitEngine(t)
    /\ \E ok \in OkChoices :
          IF ok
          THEN Goto(t, "ucp_set") /\ UNCHANGED <<last, mMutex, loc>>
          ELSE Unlock /\ ParamLeave(t, "ERROR_EFFECT_LIB_ERROR")
    /\ UNCHANGED <<ctx, eng, scen>>

\* the band definitions filled from tempLevel and LVM_SetControlParameters,
\* lines 354-361; the scope of the lock ends at line 362
UpdateSet(t) ==
    /\ In(t, "ucp_set")
    /\ ExitEngine(t)
    /\ \E ok \in OkChoices :
          /\ eng' = LVM_SetControlParameters(
                        WriteBandDefinitions(eng, loc[t].tempLevel),
                        WriteBandDefinitions(eng, loc[t].tempLevel).params, ok)
          /\ Unlock
          /\ IF ok
             THEN Goto(t, "ucp_commit") /\ UNCHANGED <<last, loc>>
             ELSE ParamLeave(t, "ERROR_EFFECT_LIB_ERROR")
    /\ UNCHANGED <<ctx, scen>>

\* mBandGaindB = tempLevel, line 363: mMutex is not held, and the copy of
\* the array is made of stores of one or more ints each, in an order the
\* build chooses (int by int; the last int first and the other four in one
\* store), so that the stores of two threads that copy at the same time
\* interleave.  A step stores some of the ints not yet stored.
UpdateCommit(t) ==
    /\ pc[t] = "ucp_commit"
    /\ \E stored \in SUBSET (Bands \ loc[t].copied) :
          /\ stored # {}
          /\ ctx' = [ctx EXCEPT !.mBandGaindB =
                        [i \in Bands |-> IF i \in stored THEN loc[t].tempLevel[i] ELSE @[i]]]
          /\ loc' = [loc EXCEPT ![t].copied = @ \cup stored]
          /\ Goto(t, IF loc[t].copied \cup stored = Bands THEN "ucp_marker" ELSE "ucp_commit")
    /\ UNCHANGED <<eng, last, scen, mMutex, inEngine>>

\* mCurPresetIdx = presetIdx (line 300) or PRESET_CUSTOM (line 314), return
UpdateMarker(t) ==
    /\ pc[t] = "ucp_marker"
    /\ ctx' = [ctx EXCEPT !.mCurPresetIdx = loc[t].presetIdx]
    /\ ParamLeave(t, "SUCCESS")
    /\ UNCHANGED <<eng, scen, mMutex, inEngine>>

InitConcParam ==
    LET r == init(Constructed(EQUALIZER, 44100, [in |-> 256, out |-> 256, size |-> 8]),
                  NoEngine, 0)
    IN /\ ctx = r.ctx
       /\ eng = r.eng
       /\ last = NoCall
       /\ scen = -1
       /\ mMutex = "none"
       /\ pc = [t \in ParamThreads |-> "idle"]
       /\ loc = [t \in ParamThreads |-> NoParamLocals]
       /\ inEngine = {}

NextConcParam ==
    \/ \E t \in ParamThreads : EnterEngine(t)
    \/ \E t \in ParamThreads : CallSetEqualizerPreset(t)
    \/ \E t \in ParamThreads : CallSetEqualizerBandLevels(t)
    \/ \E t \in ParamThreads : UpdateLock(t)
    \/ \E t \in ParamThreads : UpdateGet(t)
    \/ \E t \in ParamThreads : UpdateSet(t)
    \/ \E t \in ParamThreads : UpdateCommit(t)
    \/ \E t \in ParamThreads : UpdateMarker(t)

SpecConcParam == InitConcParam /\ [][NextConcParam]_vars

(***************************************************************************)
(* limitLevel on its own: an initialised EQUALIZER session with any saved  *)
(* master level, band gains all 0 or those of a preset, and the engine's   *)
(* equalizer on or off.                                                    *)
(***************************************************************************)
SavedLevels == (-97) .. MaxSavedLevel

LevelGains == {[i \in Bands |-> 0], PresetGains(0), PresetGains(1)}

DoLimitLevel ==
    /\ Idle
    /\ \E f \in 0 .. 3 :
          LET r == limitLevel(ctx, eng, f, 0, <<>>)
          IN Return("limitLevel", NoArgs, r, 0, EngineFailed(ctx, f, r.calls))

InitLevel ==
    LET r == init(Constructed(EQUALIZER, 44100, [in |-> 256, out |-> 256, size |-> 8]),
                  NoEngine, 0)
    IN /\ \E level \in SavedLevels, gain \in LevelGains :
             ctx = [r.ctx EXCEPT !.mLevelSaved = level, !.mBandGaindB = gain]
       /\ \E mode \in {"LVM_EQNB_ON", "LVM_EQNB_OFF"} :
             eng = [r.eng EXCEPT !.params.EQNB_OperatingMode = mode,
                                 !.params.Gain = ctx.mBandGaindB]
       /\ last = NoCall
       /\ scen = -1
       /\ mMutex = "none"
       /\ pc = [t \in Threads |-> "idle"]
       /\ loc = [t \in Threads |-> NoLocals]
       /\ inEngine = {}

NextLevel == DoLimitLevel

SpecLevel == InitLevel /\ [][NextLevel]_vars

(***************************************************************************)
(* LVC_ToDB_s32Tos16 on its own.  The arguments drawn, as pairs of 16-bit  *)
(* halves: 0; every power of two and every power of two minus one; every   *)
(* value of the seven bits below the leading bit, with the leading bit at  *)
(* bit 7, bit 23 and bit 31, and for bit 31 with the bits below all clear  *)
(* and all set.  loc holds whether the function was called, and of the     *)
(* last call the argument, the Shift the scan ended with and the value     *)
(* returned.                                                               *)
(***************************************************************************)
DbInputs ==
    {<<0, 0>>}
    \cup {<<0, Pow2(k)>> : k \in 0 .. 15}
    \cup {<<Pow2(k), 0>> : k \in 0 .. 15}
    \cup {<<0, Pow2(k) - 1>> : k \in 1 .. 16}
    \cup {<<Pow2(k) - 1, 65535>> : k \in 1 .. 16}
    \cup {<<0, 128 + r>> : r \in 0 .. 127}
    \cup {<<128 + r, 0>> : r \in 0 .. 127}
    \cup {<<32768 + 256 * r, lo>> : r \in 0 .. 127, lo \in {0, 65535}}

NoDbCall == [called |-> FALSE, Lin_fix |-> <<0, 0>>, Shift |-> 0, db_fix |-> 0]

DbCall(Lin_fix) ==
    [called |-> TRUE,
     Lin_fix |-> Lin_fix,
     Shift |-> LeadingShift(Lin_fix[1], Lin_fix[2]),
     db_fix |-> LVC_ToDB_s32Tos16(Lin_fix)]

DoToDb ==
    /\ \E Lin_fix \in DbInputs : loc' = [t \in {"control"} |-> DbCall(Lin_fix)]
    /\ UNCHANGED <<ctx, eng, last, scen, mMutex, pc, inEngine>>

InitDb ==
    /\ ctx = Constructed(VOLUME, 44100, [in |-> 256, out |-> 256, size |-> 8])
    /\ eng = NoEngine
    /\ last = NoCall
    /\ scen = -1
    /\ mMutex = "none"
    /\ pc = [t \in {"control"} |-> "idle"]
    /\ loc = [t \in {"control"} |-> NoDbCall]
    /\ inEngine = {}

NextDb == DoToDb

SpecDb == InitDb /\ [][NextDb]_vars

(***************************************************************************)
(* One thread calls enable(), disable() and lvmProcess() on an EQUALIZER   *)
(* session that init() has set up, at each of the sample rates; every      *)
(* engine call succeeds and lvmProcess gets valid buffers.                 *)
(***************************************************************************)
\* the sample rates of these sessions: those of SampleRates, 5 (whose
\* budget (int)(5 * 0.1) is 0 as well) and 48000
CountSampleRates == SampleRates \cup {5, 48000}

EnableOk ==
    /\ Idle
    /\ ctx.mNumberEffectsEnabled < MaxEnabled
    /\ Return("enable", NoArgs, enable(ctx, eng, 0), 0, FALSE)

DisableOk ==
    /\ Idle
    /\ Return("disable", NoArgs, disable(ctx, eng, 0), 0, FALSE)

LvmProcessOk ==
    /\ Idle
    /\ \E samples \in SampleCounts :
          LET r == lvmProcess(ctx, eng, 1, 1, samples, 0)
          IN /\ ctx' = r.ctx
             /\ eng' = r.eng
             /\ last' = [op |-> "lvmProcess",
                         arg |-> [NoArgs EXCEPT !.in = 1, !.out = 1, !.samples = samples],
                         ret |-> r.ret, calls |-> r.calls, failed |-> FALSE,
                         consumed |-> r.consumed, produced |-> r.produced,
                         out |-> r.out, avail |-> r.avail, got |-> <<>>]
             /\ scen' = ScenarioNext(scen, "lvmProcess", samples, r.ret)
             /\ UNCHANGED <<mMutex, pc, loc, inEngine>>

InitCount ==
    /\ \E rate \in CountSampleRates :
          LET r == init(Constructed(EQUALIZER, rate, [in |-> 256, out |-> 256, size |-> 8]),
                        NoEngine, 0)
          IN ctx = r.ctx /\ eng = r.eng
    /\ last = NoCall
    /\ scen = -1
    /\ mMutex = "none"
    /\ pc = [t \in Threads |-> "idle"]
    /\ loc = [t \in Threads |-> NoLocals]
    /\ inEngine = {}

NextCount ==
    \/ EnableOk
    \/ DisableOk
    \/ LvmProcessOk

SpecCount == InitCount /\ [][NextCount]_vars

(***************************************************************************)
(* One thread calls enable(), disable(), setEqualizerPreset() and          *)
(* setEqualizerBandLevels() on an EQUALIZER session that init() has set    *)
(* up; every engine call succeeds, and every update names all the bands.   *)
(***************************************************************************)
\* the presets selected: all of them
GainPresets == 0 .. (MAX_NUM_PRESETS - 1)

SetEqualizerPresetOk ==
    /\ Idle
    /\ \E presetIdx \in GainPresets :
          Return("setEqualizerPreset", [NoArgs EXCEPT !.presetIdx = presetIdx],
                 setEqualizerPreset(ctx, eng, presetIdx, 0), 0, FALSE)

SetEqualizerBandLevelsOk ==
    /\ Idle
    /\ \E bandLevels \in ConcUpdates :
          Return("setEqualizerBandLevels", [NoArgs EXCEPT !.bandLevels = bandLevels],
                 setEqualizerBandLevels(ctx, eng, bandLevels, 0), 0, FALSE)

InitGain ==
    LET r == init(Constructed(EQUALIZER, 44100, [in |-> 256, out |-> 256, size |-> 8]),
                  NoEngine, 0)
    IN /\ ctx = r.ctx
       /\ eng = r.eng
       /\ last = NoCall
       /\ scen = -1
       /\ mMutex = "none"
       /\ pc = [t \in Threads |-> "idle"]
       /\ loc = [t \in Threads |-> NoLocals]
       /\ inEngine = {}

NextGain ==
    \/ EnableOk
    \/ DisableOk
    \/ SetEqualizerPresetOk
    \/ SetEqualizerBandLevelsOk

SpecGain == InitGain /\ [][NextGain]_vars


(***************************************************************************)
(* Claims about the drain accounting (specification Spec).                 *)
(***************************************************************************)
InDrain(c) == EQUALIZER \in c.mEffectInDrain

\* the step is a call of lvmProcess that passed the argument checks
ProcessStep ==
    /\ last'.op = "lvmProcess"
    /\ last'.ret \notin {"EX_NULL_POINTER", "EX_ILLEGAL_STATE"}

C1_Step ==
    /\ (ProcessStep /\ ctx.mType = EQUALIZER /\ ~ctx.mEnabled /\ InDrain(ctx))
          => /\ ctx.mSamplesToExitCountEq > 0 => "LVM_Process" \in Range(last'.calls)
             /\ ctx'.mSamplesToExitCountEq > 0
                   => /\ "LVM_Process" \in Range(last'.calls)
                      /\ ctx'.mNumberEffectsEnabled = ctx.mNumberEffectsEnabled
                      /\ InDrain(ctx')
             /\ ctx'.mSamplesToExitCountEq <= 0
                   => /\ ctx'.mNumberEffectsEnabled = ctx.mNumberEffectsEnabled - 1
                      /\ ~InDrain(ctx')
    /\ (ProcessStep /\ ~InDrain(ctx))
          => /\ ctx'.mNumberEffectsEnabled = ctx.mNumberEffectsEnabled
             /\ ~InDrain(ctx')
    /\ (~InDrain(ctx) /\ InDrain(ctx'))
          => /\ last'.op = "disable"
             /\ ctx.mEnabled
             /\ ctx'.mSamplesToExitCountEq = DrainBudget(ctx.mSamplesPerSecond)
    /\ (InDrain(ctx) /\ ~InDrain(ctx') /\ last'.op # "lvmProcess")
          => last'.op = "enable"

\* C1: after disable() on an enabled EQUALIZER session the drain budget is
\* 0.1 * sample rate; every lvmProcess call made while budget remains calls
\* LVM_Process and leaves the enabled-effect count alone; the call on which
\* the budget is used up decrements the count by exactly 1 and ends the
\* drain; and no lvmProcess call of a session that is not draining changes
\* the count, so it is not decremented again before the next enable() and
\* disable().
C1_DrainDecrementsOnce == [][C1_Step]_vars

\* a drain of a 44100 Hz session has just ended: the count went from 1 to 0
\* on a call that still reached the engine
C1_Witness ==
    /\ last.op = "lvmProcess"
    /\ last.ret = "STATUS_OK"
    /\ ctx.mType = EQUALIZER
    /\ ctx.mSamplesPerSecond = 44100
    /\ ~ctx.mEnabled
    /\ ctx.mSamplesToExitCountEq = 4410 - 6000
    /\ ~InDrain(ctx)
    /\ ctx.mNumberEffectsEnabled = 0

\* the scenario has run to its last call on a 44100 Hz EQUALIZER session
ScenarioDone ==
    /\ scen = Len(Scenario)
    /\ ctx.mType = EQUALIZER
    /\ ctx.mSamplesPerSecond = 44100

\* C2 as stated: a call that finds the drain budget exhausted (data not
\* available, the budget counted down below 0 by the calls since disable) makes no engine process call and copies the input to the
\* output, and the last call of the scenario is such a pass-through.
C2_Original ==
    /\ (last.op = "lvmProcess" /\ last.ret = "STATUS_OK" /\ ~last.avail
           /\ ctx.mSamplesToExitCountEq < 0)
          => (last.calls = <<>> /\ last.out = "IN")
    /\ ScenarioDone => (last.calls = <<>> /\ last.out = "IN")

C2_Step ==
    /\ (ProcessStep /\ ~last'.avail)
          => /\ ctx'.mNumberEffectsCalled = ctx.mNumberEffectsCalled
                   \/ ctx'.mNumberEffectsCalled = 0
             /\ IF ctx.mNumberEffectsCalled >= ctx'.mNumberEffectsEnabled
                THEN last'.calls = <<"LVM_Process">> /\ last'.out # "IN"
                ELSE last'.calls = <<>> /\ last'.out = "IN" /\ last'.ret = "STATUS_OK"
    /\ ScenarioDone'
          => /\ ~last'.avail
             /\ ctx'.mNumberEffectsEnabled = 0
             /\ last'.calls = <<"LVM_Process">>
             /\ last'.out # "IN"

\* what lvmProcess does in place of C2: a call that finds the drain budget
\* exhausted is not counted as a called effect; it is a pass-through (no
\* engine process call, output equal to input) only when the called count
\* is below the enabled-effect count, and otherwise it still calls
\* LVM_Process ("processing last frame").  In the scenario the enabled
\* count has dropped to 0, so the last call reaches the engine.
C2_LastFrameIsProcessed == [][C2_Step]_vars

\* the last call of the scenario found no data available and called
\* LVM_Process: the output is what the engine wrote, not the input
C2_Witness ==
    /\ ScenarioDone
    /\ ~last.avail
    /\ last.calls = <<"LVM_Process">>
    /\ last.out = "LVM"

\* C3 as stated: enable() on an enabled session and disable() on a session
\* that is not enabled fail with the illegal-state error and change nothing.
C3_OriginalStep ==
    ((last'.op = "enable" /\ ctx.mEnabled) \/ (last'.op = "disable" /\ ~ctx.mEnabled))
       => /\ last'.ret = "ERROR_ILLEGAL_STATE"
          /\ ctx' = ctx
          /\ eng' = eng

C3_Original == [][C3_OriginalStep]_vars

C3_Step ==
    ((last'.op = "enable" /\ ctx.mEnabled) \/ (last'.op = "disable" /\ ~ctx.mEnabled))
       => /\ last'.ret = "ERROR_ILLEGAL_PARAMETER"
          /\ last'.calls = <<>>
          /\ ctx' = ctx
          /\ eng' = eng

\* what enable() and disable() do in place of C3: on a session that is
\* already enabled, or not enabled, they fail with ERROR_ILLEGAL_PARAMETER,
\* make no engine call and leave the session (enabled flag, draining flag,
\* drain budget, enabled-effect count) and the engine parameters unchanged.
C3_RejectedWithoutChange == [][C3_Step]_vars

\* enable() was refused on an enabled EQUALIZER session, with the
\* illegal-parameter error
C3_Witness ==
    /\ last.op = "enable"
    /\ last.ret = "ERROR_ILLEGAL_PARAMETER"
    /\ ctx.mEnabled
    /\ ctx.mInstance # NULL
    /\ eng.params.EQNB_OperatingMode = "LVM_EQNB_ON"
    /\ ctx.mType = EQUALIZER
    /\ ctx.mNumberEffectsEnabled = 1

C8_Step ==
    LET a == last'.arg
        bad == \/ a.in = NULL
               \/ a.out = NULL
               \/ ctx.inputFrameCount # ctx.outputFrameCount
               \/ ctx.frameSize = 0
    IN (last'.op = "lvmProcess" /\ bad)
          => /\ last'.ret = IF a.in = NULL \/ a.out = NULL
                            THEN "EX_NULL_POINTER" ELSE "EX_ILLEGAL_STATE"
             /\ last'.consumed = 0
             /\ last'.produced = 0
             /\ last'.calls = <<>>
             /\ ctx' = ctx
             /\ eng' = eng

\* C8: lvmProcess with a null input or output pointer returns the
\* null-pointer error, and with mismatched frame counts or a zero frame size
\* the illegal-state error; each time it reports 0 frames consumed and
\* produced, makes no engine call and leaves the session unchanged.
C8_BadArgumentsChangeNothing == [][C8_Step]_vars

\* a call with a null output pointer was refused while a drain was under way
C8_Witness ==
    /\ last.op = "lvmProcess"
    /\ last.arg.out = NULL
    /\ last.arg.in # NULL
    /\ last.ret = "EX_NULL_POINTER"
    /\ InDrain(ctx)
    /\ ctx.mSamplesToExitCountEq > 0


(***************************************************************************)
(* Claims about the parameter store (specification SpecParam).             *)
(***************************************************************************)
\* the update is one the claims call valid: not empty, at most
\* MAX_NUM_BANDS entries, every index in [0, MAX_NUM_BANDS)
ValidUpdate(u) ==
    /\ Len(u) >= 1
    /\ Len(u) <= MAX_NUM_BANDS
    /\ \A k \in 1 .. Len(u) : u[k].index >= 0 /\ u[k].index < MAX_NUM_BANDS

\* the last call was setEqualizerBandLevels with a valid update and no
\* engine call of it failed
ValidSetDone ==
    /\ last.op = "setEqualizerBandLevels"
    /\ ValidUpdate(last.arg.bandLevels)
    /\ ~last.failed

\* the level a vector of band levels gives for a band
LevelOf(levels, i) ==
    LET k == CHOOSE k \in 1 .. Len(levels) : levels[k].index = i
    IN levels[k].levelMb

\* C4 as stated: after a valid setEqualizerBandLevels whose engine calls
\* succeed, getEqualizerBandLevels returns for each entry of the update the
\* level that entry supplied for its index.
C4_OriginalStep ==
    (ValidSetDone /\ last'.op = "getEqualizerBandLevels")
       => /\ last.ret = "SUCCESS"
          /\ \A k \in 1 .. Len(last.arg.bandLevels) :
                LevelOf(last'.got, last.arg.bandLevels[k].index) = last.arg.bandLevels[k].levelMb

C4_Original == [][C4_OriginalStep]_vars

C4_Step ==
    (ValidSetDone /\ last'.op = "getEqualizerBandLevels")
       => /\ last.ret = "SUCCESS"
          /\ Len(last'.got) = MAX_NUM_BANDS
          /\ \A k \in 1 .. Len(last.arg.bandLevels) :
                (\A j \in (k + 1) .. Len(last.arg.bandLevels) : last.arg.bandLevels[j].index # last.arg.bandLevels[k].index)
                   => LevelOf(last'.got, last.arg.bandLevels[k].index) = last.arg.bandLevels[k].levelMb

\* C4, amended: after a valid setEqualizerBandLevels whose engine calls
\* succeed, getEqualizerBandLevels returns, for each index the update names,
\* the level supplied by the last entry of the update with that index (an
\* earlier entry with the same index is overwritten).
C4_RoundTripLastEntryWins == [][C4_Step]_vars

\* a get has followed a successful update of two different bands
C4_Witness ==
    /\ last.op = "getEqualizerBandLevels"
    /\ ctx.mCurPresetIdx = PRESET_CUSTOM
    /\ {1, 2} \subseteq DOMAIN ctx.mBandGaindB
    /\ LevelOf(last.got, 1) = -2
    /\ LevelOf(last.got, 2) = 4

C5_Step ==
    /\ (last'.op = "setEqualizerBandLevels" /\ ~ValidUpdate(last'.arg.bandLevels))
          => /\ last'.ret = "ERROR_ILLEGAL_PARAMETER"
             /\ last'.calls = <<>>
             /\ ctx' = ctx
             /\ eng' = eng
    /\ (last'.op = "setEqualizerPreset" /\ last'.arg.presetIdx >= MAX_NUM_PRESETS)
          => /\ last'.ret = "ERROR_ILLEGAL_PARAMETER"
             /\ last'.calls = <<>>
             /\ ctx' = ctx
             /\ eng' = eng

\* C5: setEqualizerBandLevels with an empty update, with more than
\* MAX_NUM_BANDS entries or with an index outside [0, MAX_NUM_BANDS), and
\* setEqualizerPreset with an index >= MAX_NUM_PRESETS, return the
\* illegal-parameter error, make no engine call and leave the mirrored band
\* gains and the preset marker (the whole session) unchanged.
C5_IllegalParameterChangesNothing == [][C5_Step]_vars

\* an update whose second entry names band MAX_NUM_BANDS was refused after
\* the session had left the NORMAL preset
C5_Witness ==
    /\ last.op = "setEqualizerBandLevels"
    /\ Len(last.arg.bandLevels) = 2
    /\ last.arg.bandLevels[1].index = MAX_NUM_BANDS - 1
    /\ last.arg.bandLevels[2].index = MAX_NUM_BANDS
    /\ last.ret = "ERROR_ILLEGAL_PARAMETER"
    /\ ctx.mCurPresetIdx = 5

\* the call made is one of the three setters and an engine call of it failed
SetterFailed ==
    /\ last'.op \in {"setEqualizerPreset", "setEqualizerBandLevels", "setVolumeStereo"}
    /\ last'.failed

\* the call made is one of the three setters and the engine accepted the
\* parameters it passed
SetterAccepted ==
    /\ last'.op \in {"setEqualizerPreset", "setEqualizerBandLevels", "setVolumeStereo"}
    /\ last'.ret = "SUCCESS"
    /\ "LVM_SetControlParameters" \in Range(last'.calls)

C6_OriginalStep ==
    /\ SetterFailed
          => /\ last'.ret = "ERROR_EFFECT_LIB_ERROR"
             /\ ctx'.mBandGaindB = ctx.mBandGaindB
             /\ ctx'.mCurPresetIdx = ctx.mCurPresetIdx
             /\ ctx'.mVolumeStereo = ctx.mVolumeStereo
    /\ SetterAccepted => ctx'.mBandGaindB = eng'.params.Gain

\* C6 as stated: a setEqualizerPreset, setEqualizerBandLevels or
\* setVolumeStereo call one of whose engine calls fails returns the engine
\* error and leaves the mirrored band gains, the preset marker and the
\* mirrored stereo volume as they were, and whenever the engine accepts a
\* parameter set the mirrored band gains are the band gains of that set.
C6_Original == [][C6_OriginalStep]_vars

C6_MembersKeptStep ==
    SetterFailed
       => /\ last'.ret = "ERROR_EFFECT_LIB_ERROR"
          /\ ctx'.mBandGaindB = ctx.mBandGaindB
          /\ ctx'.mCurPresetIdx = ctx.mCurPresetIdx
          /\ ctx'.mVolumeStereo = ctx.mVolumeStereo

\* the part of C6 about the members of the session alone
C6_MembersKept == [][C6_MembersKeptStep]_vars

\* after a setEqualizerPreset whose LVM_SetControlParameters failed, the
\* engine has accepted the parameters of a setVolumeStereo: they carry the
\* gains the failed call wrote, the mirror holds the gains of before
C6_Witness ==
    /\ last.op = "setVolumeStereo"
    /\ last.ret = "SUCCESS"
    /\ ctx.mCurPresetIdx = PRESET_CUSTOM
    /\ ctx.mBandGaindB = PresetGains(0)
    /\ eng.params.Gain = PresetGains(5)

C7_Step ==
    /\ (last'.op = "setEqualizerPreset" /\ last'.arg.presetIdx < MAX_NUM_PRESETS /\ ~last'.failed)
          => /\ last'.ret = "SUCCESS"
             /\ \A i \in Bands : ctx'.mBandGaindB[i] = kSoftPresets[last'.arg.presetIdx + 1][i + 1]
             /\ ctx'.mCurPresetIdx = last'.arg.presetIdx
             /\ ctx'.mCurPresetIdx # PRESET_CUSTOM
    /\ (last'.op = "setEqualizerBandLevels" /\ last'.ret = "SUCCESS")
          => ctx'.mCurPresetIdx = PRESET_CUSTOM
    /\ (ctx.mCurPresetIdx = PRESET_CUSTOM /\ ctx'.mCurPresetIdx # PRESET_CUSTOM)
          => (last'.op = "setEqualizerPreset" /\ last'.ret = "SUCCESS")

\* C7: a successful setEqualizerPreset(p) with a valid p sets every mirrored
\* band gain to kSoftPresets[p][i] and makes p the preset marker; a
\* successful setEqualizerBandLevels, even of one entry, makes the marker
\* custom; and a custom marker changes only by a successful
\* setEqualizerPreset.
C7_PresetThenCustom == [][C7_Step]_vars

\* an update of one entry has made a session custom that held preset 5
C7_Witness ==
    /\ last.op = "setEqualizerBandLevels"
    /\ Len(last.arg.bandLevels) = 1
    /\ last.ret = "SUCCESS"
    /\ ctx.mCurPresetIdx = PRESET_CUSTOM
    /\ ctx.mBandGaindB[last.arg.bandLevels[1].index] = last.arg.bandLevels[1].levelMb

(***************************************************************************)
(* Claims about two threads on one session (specification SpecConc).       *)
(***************************************************************************)
\* the statements at which a thread waits for mMutex
LockSites == {"om_lock", "ll_lock", "p_lock"}

\* C9: every call into the engine (create and destroy handle, get and set
\* control parameters, set headroom parameters, set volume without
\* smoothing, process) is made by a thread that owns mMutex, so at no time
\* are two threads inside engine calls on the handle.
C9_EngineCallsUnderLock ==
    /\ \A t \in inEngine : mMutex = t
    /\ Cardinality(inEngine) <= 1

\* the audio thread is inside LVM_Process while the control thread, in
\* enable() or disable(), waits for mMutex before its own engine calls
C9_Witness ==
    /\ "audio" \in inEngine
    /\ pc["audio"] = "p_process"
    /\ mMutex = "audio"
    /\ pc["control"] \in LockSites
    /\ ctx.mInstance # NULL

\* the effect types of the session that are enabled or draining
EnabledOrDraining(c) == c.mEffectInDrain \cup (IF c.mEnabled THEN {c.mType} ELSE {})

\* no handler is running
Quiescent == \A t \in Threads : pc[t] = "idle"

\* C10: with enable() and disable() on the control thread and lvmProcess on
\* the audio thread of an initialised session, whenever the calls have
\* returned, the enabled-effect count does not exceed the number of effect
\* types that are enabled or draining.
C10_Original ==
    (Quiescent /\ ctx.mInstance # NULL)
       => ctx.mNumberEffectsEnabled <= Cardinality(EnabledOrDraining(ctx))

\* both calls have returned, the session is enabled and not draining, and
\* the enabled-effect count is 2
C10_Witness ==
    /\ Quiescent
    /\ ctx.mInstance # NULL
    /\ ctx.mEnabled
    /\ ctx.mEffectInDrain = {}
    /\ ctx.mNumberEffectsEnabled = 2

(***************************************************************************)
(* Claims about two threads on the parameter store (specification          *)
(* SpecConcParam).                                                         *)
(***************************************************************************)
\* both threads have returned from a call, and both calls succeeded
BothSucceeded ==
    \A t \in ParamThreads : pc[t] = "idle" /\ loc[t].ret = "SUCCESS"

\* C11: when two threads call setEqualizerBandLevels / setEqualizerPreset
\* concurrently with different values and both calls succeed, after both
\* have returned the mirrored band gains equal the band gains the engine
\* holds.
C11_Original == BothSucceeded => ctx.mBandGaindB = eng.params.Gain

\* both calls have succeeded and returned with different values; the engine
\* holds the gains of one thread and the mirror those of the other
C11_Witness ==
    /\ BothSucceeded
    /\ loc["t1"].tempLevel # loc["t2"].tempLevel
    /\ eng.params.Gain = loc["t2"].tempLevel
    /\ ctx.mBandGaindB = loc["t1"].tempLevel

(***************************************************************************)
(* Claims about the level limiter and the life cycle (specification Spec). *)
(***************************************************************************)
\* the call of the step issued LVM_SetVolumeNoSmoothing
NoSmoothingIssued == "LVM_SetVolumeNoSmoothing" \in Range(last'.calls)

C12_Step ==
    /\ ~ctx.mFirstVolume => ~ctx'.mFirstVolume /\ ~NoSmoothingIssued
    /\ (NoSmoothingIssued /\ last'.ret = "SUCCESS")
          => ctx.mFirstVolume /\ ~ctx'.mFirstVolume

\* C12: LVM_SetVolumeNoSmoothing is issued only while the first-volume flag
\* is set; a call that issued it and succeeded clears the flag, the flag is
\* never set again, and once it is cleared no enable() or disable() issues
\* the no-smoothing call: it succeeds at most once per session.
C12_NoSmoothingOnlyFirst == [][C12_Step]_vars

\* a later level application: enable() or disable() has succeeded on a
\* session whose first-volume flag is cleared, with the two calls of the
\* operating-mode update and the get and set of limitLevel only
C12_Witness ==
    /\ last.op \in {"enable", "disable"}
    /\ last.ret = "SUCCESS"
    /\ ~ctx.mFirstVolume
    /\ last.calls = <<"LVM_GetControlParameters", "LVM_SetControlParameters",
                      "LVM_GetControlParameters", "LVM_SetControlParameters">>

(***************************************************************************)
(* Claims about limitLevel (specification SpecLevel).                      *)
(***************************************************************************)
AllGainsZero(c) == \A i \in Bands : c.mBandGaindB[i] = 0

\* the step is a limitLevel that pushed its level to the engine
LevelPushed ==
    /\ last'.op = "limitLevel"
    /\ "LVM_SetControlParameters" \in Range(last'.calls)
    /\ Len(last'.calls) > 2 \/ ~last'.failed

\* C13 as stated: with every band gain 0 and any saved level above -96,
\* the level pushed to the engine equals the saved level.
C13_OriginalStep ==
    (LevelPushed /\ AllGainsZero(ctx) /\ ctx.mLevelSaved > -96)
       => eng'.params.VC_EffectLevel = ctx.mLevelSaved

C13_Original == [][C13_OriginalStep]_vars

C13_Step ==
    (LevelPushed /\ AllGainsZero(ctx) /\ ctx.mLevelSaved > -96)
       => /\ ctx.mLevelSaved <= 0
             => eng'.params.VC_EffectLevel = ctx.mLevelSaved
          /\ ctx.mLevelSaved > 0
             => eng'.params.VC_EffectLevel = 0

\* C13: with every band gain 0, for a saved level in (-96, 0] limitLevel
\* computes gainCorrection = 0 and pushes the saved level; for a saved
\* level above 0 gainCorrection is the saved level and the level pushed
\* is 0.
C13_ZeroGainsLevel == [][C13_Step]_vars

\* limitLevel has pushed the saved level -10 of a session whose gains are
\* all 0 and whose equalizer is on
C13_Witness ==
    /\ last.op = "limitLevel"
    /\ last.ret = "SUCCESS"
    /\ AllGainsZero(ctx)
    /\ eng.params.EQNB_OperatingMode = "LVM_EQNB_ON"
    /\ ctx.mLevelSaved = -10
    /\ eng.params.VC_EffectLevel = -10

(***************************************************************************)
(* Claims about LVC_ToDB_s32Tos16 (specification SpecDb).                  *)
(***************************************************************************)
\* v1 <= v2 for 32-bit unsigned values given as pairs of halves
Leq32(v1, v2) == v1[1] < v2[1] \/ (v1[1] = v2[1] /\ v1[2] <= v2[2])

C14_Step ==
    LET a == loc["control"]
        b == loc'["control"]
    IN /\ (a.called /\ Leq32(a.Lin_fix, b.Lin_fix)) => a.db_fix <= b.db_fix
       /\ b.Lin_fix = <<0, 0>> => b.Shift = 32
       /\ b.db_fix >= LVC_ToDB_s32Tos16(<<0, 0>>)

\* C14: for unsigned arguments v1 <= v2 the result for v1 is at most the
\* result for v2; for the argument 0 the scan ends with Shift = 32, and no
\* argument gives a result below that of 0.
C14_Monotonic == [][C14_Step]_vars

\* the call with argument 0: 32 iterations, and the result -3077
C14_Witness ==
    /\ loc["control"].called
    /\ loc["control"].Lin_fix = <<0, 0>>
    /\ loc["control"].Shift = 32
    /\ loc["control"].db_fix = -3077

(***************************************************************************)
(* Claims about the engine handle (specification Spec).                    *)
(***************************************************************************)
\* C15 as stated: no handle is destroyed twice, the stored handle is null
\* exactly when every handle created was destroyed, and after a deInit()
\* that returned no created handle is left undestroyed.
C15_Original ==
    /\ eng.destroyed <= eng.created
    /\ pc["control"] = "idle"
          => /\ ctx.mInstance = NULL <=> eng.created = eng.destroyed
             /\ last.op = "deInit" => eng.created = eng.destroyed

\* deInit() has returned on a session that init() initialised twice: two
\* handles were created, one was destroyed, and the stored handle is null
C15_Witness ==
    /\ pc["control"] = "idle"
    /\ last.op = "deInit"
    /\ last.calls = <<"LVM_DelInstanceHandle">>
    /\ ctx.mInstance = NULL
    /\ eng.created = 2
    /\ eng.destroyed = 1

(***************************************************************************)
(* Claims about the enabled-effect count of one thread (specification      *)
(* SpecCount).                                                             *)
(***************************************************************************)
\* C16 as stated: at every sample rate, the enabled-effect count is 1 when
\* the session is enabled or its draining flag is set, and 0 otherwise.
C16_Original ==
    ctx.mNumberEffectsEnabled = (IF EnabledOrDraining(ctx) = {} THEN 0 ELSE 1)

\* the same, for the sessions whose drain budget is not 0
C16_PositiveBudget ==
    DrainBudget(ctx.mSamplesPerSecond) > 0 => C16_Original

\* at the sample rate 0 an enable() during a drain has returned SUCCESS and
\* the count is 2
C16_Witness ==
    /\ DrainBudget(ctx.mSamplesPerSecond) = 0
    /\ last.op = "enable"
    /\ last.ret = "SUCCESS"
    /\ ctx.mEnabled
    /\ ctx.mNumberEffectsEnabled = 2

(***************************************************************************)
(* Claims about the failure path of init() (specification SpecConc).       *)
(***************************************************************************)
\* C17 as stated: init() never blocks; when one of its engine calls has
\* failed it reaches deInit() without mMutex held by its own thread, so
\* that deInit() can take it.
C17_Original ==
    /\ pc["control"] # "hung"
    /\ pc["control"] = "init_fail" => mMutex # "control"

\* LVM_SetControlParameters or LVM_SetHeadroomParams has failed in init():
\* the thread waits in deInit() for the mutex it holds, and the handle it
\* created is still stored and not destroyed
C17_Witness ==
    /\ pc["control"] = "hung"
    /\ loc["control"].op = "init"
    /\ mMutex = "control"
    /\ ctx.mInstance # NULL
    /\ eng.created > eng.destroyed

(***************************************************************************)
(* Claims about a failing enable() or disable() (specification Spec).      *)
(***************************************************************************)
\* the members the drain accounting rests on
Accounting(c) ==
    <<c.mEnabled, c.mEffectInDrain, c.mSamplesToExitCountEq, c.mNumberEffectsEnabled>>

C18_OriginalStep ==
    (/\ ctx.mInstance # NULL
     /\ last'.op \in {"enable", "disable"}
     /\ last'.ret = "ERROR_EFFECT_LIB_ERROR")
       => /\ Accounting(ctx') = Accounting(ctx)
          /\ ctx'.mType = EQUALIZER
                => (ctx'.mEnabled <=> eng'.params.EQNB_OperatingMode = "LVM_EQNB_ON")

\* C18 as stated: an enable() or disable() of an initialised session that
\* returns the engine error leaves the enabled flag, the draining flag, the
\* drain budget and the enabled-effect count as they were, and the enabled
\* flag agrees with the engine's equalizer operating mode.
C18_Original == [][C18_OriginalStep]_vars

\* enable() of an initialised EQUALIZER session has returned the engine
\* error after its first engine call: the session counts as enabled, the
\* engine's equalizer is off
C18_Witness ==
    /\ ctx.mInstance # NULL
    /\ ctx.mType = EQUALIZER
    /\ last.op = "enable"
    /\ last.ret = "ERROR_EFFECT_LIB_ERROR"
    /\ last.calls = <<"LVM_GetControlParameters">>
    /\ ctx.mEnabled
    /\ ctx.mNumberEffectsEnabled = 1
    /\ eng.params.EQNB_OperatingMode = "LVM_EQNB_OFF"

(***************************************************************************)
(* Claims about the forced-drain branch of lvmProcess (specification       *)
(* Spec).                                                                  *)
(***************************************************************************)
C19_Step ==
    (/\ last'.op = "lvmProcess"
     /\ ArgumentStatus(ctx, last'.arg.in, last'.arg.out) = "STATUS_OK")
       => /\ ctx.mType \in ctx.mEffectProcessCalled
                => EQUALIZER \notin (ctx.mEffectInDrain \ ctx.mEffectProcessCalled)
          /\ ForcedDrain(ctx) = ctx

\* C19: when one thread calls the handlers of a session of any type, every
\* lvmProcess that passes its argument checks enters with the EQUALIZER bit
\* of (draining AND NOT processed) clear whenever the session's own bit is
\* set in the processed mask, so the forced-drain branch changes nothing.
C19_NoForcedDrain == [][C19_Step]_vars

\* lvmProcess has run on a session whose own bit was set in the processed
\* mask on entry: it counted the second call of the round, and the round
\* is still open
C19_Witness ==
    /\ last.op = "lvmProcess"
    /\ last.ret = "STATUS_OK"
    /\ ctx.mType \in ctx.mEffectProcessCalled
    /\ ctx.mNumberEffectsCalled = 2

(***************************************************************************)
(* Claims about the bands an update does not name (specification           *)
(* SpecParam).                                                             *)
(***************************************************************************)
\* band i has a determined gain in gains and in gainsBefore, and the two
\* are equal
GainKept(gains, gainsBefore, i) ==
    /\ i \in DOMAIN gains
    /\ i \in DOMAIN gainsBefore
    /\ gains[i] = gainsBefore[i]

C20_OriginalStep ==
    (last'.op = "setEqualizerBandLevels" /\ last'.ret = "SUCCESS")
       => \A i \in Bands \ NamedBands(last'.arg.bandLevels) :
             /\ GainKept(ctx'.mBandGaindB, ctx.mBandGaindB, i)
             /\ GainKept(eng'.params.Gain, eng.params.Gain, i)

\* C20 as stated: a successful setEqualizerBandLevels leaves the gain of
\* every band its update does not name unchanged, in the mirrored gains and
\* in the band definitions of the engine.
C20_Original == [][C20_OriginalStep]_vars

\* a successful update that names band 0 only: bands 1 to 4, which held the
\* gains of the preset, hold in the mirror and in the engine what the
\* unwritten entries of tempLevel were read as, which nothing determines
C20_Witness ==
    /\ last.op = "setEqualizerBandLevels"
    /\ last.ret = "SUCCESS"
    /\ NamedBands(last.arg.bandLevels) = {0}
    /\ DOMAIN ctx.mBandGaindB = {0}
    /\ DOMAIN eng.params.Gain = {0}
    /\ ctx.mBandGaindB[0] = last.arg.bandLevels[1].levelMb

(***************************************************************************)
(* Claims about the level held by the engine (specification SpecGain).     *)
(***************************************************************************)
\* the level limitLevel computes from the session and the engine as they are
ComputedLevel ==
    EffectLevel(ctx.mBandGaindB, eng.params.EQNB_OperatingMode = "LVM_EQNB_ON",
                ctx.mLevelSaved)

\* C21 as stated: after any sequence of successful enable(), disable(),
\* setEqualizerPreset() and setEqualizerBandLevels() calls the engine's
\* volume-control level is the level limitLevel computes from the mirrored
\* band gains, the engine's operating mode and the saved level.
C21_Original == eng.params.VC_EffectLevel = ComputedLevel

\* the same, after the calls that run limitLevel
C21_AfterEnableDisable ==
    (last.op \in {"enable", "disable"} /\ last.ret = "SUCCESS")
       => eng.params.VC_EffectLevel = ComputedLevel

\* setEqualizerPreset(5) has succeeded on an enabled session: the engine
\* holds the gains of preset 5 and the level computed for the gains before
\* the call
C21_Witness ==
    /\ last.op = "setEqualizerPreset"
    /\ last.ret = "SUCCESS"
    /\ ctx.mEnabled
    /\ ctx.mBandGaindB = PresetGains(5)
    /\ eng.params.Gain = PresetGains(5)
    /\ eng.params.EQNB_OperatingMode = "LVM_EQNB_ON"
    /\ eng.params.VC_EffectLevel > ComputedLevel

====
